---------------------------- MODULE Spec2Model ----------------------------
(***************************************************************************)
(* Model of the inventory simulator: the per-product lot ledger            *)
(* (models/producto.py), the financial ledger (models/finanzas.py), the    *)
(* replenishment policy engine (core/gestor_pedidos.py) and the day loop   *)
(* of the simulation engine (core/simulador.py).                           *)
(*                                                                         *)
(* Quantities are Python ints.  Money, sensitivities and every other       *)
(* Python float is an IEEE-754 binary64 value, modelled bit-exactly: a     *)
(* value is a sign, a 53-bit mantissa held as base-2^14 limbs and a binary *)
(* exponent, and every arithmetic operation rounds to nearest, ties to     *)
(* even, as CPython's float does.                                          *)
(***************************************************************************)
EXTENDS Integers, Sequences, FiniteSets, TLC

(***************************************************************************)
(* Natural numbers of arbitrary size: little-endian sequences of limbs in  *)
(* base 2^14, without leading zero limbs; <<>> is 0.  They carry the       *)
(* mantissas of binary64 values and the exact intermediate results.        *)
(***************************************************************************)
LimbBits == 14

Base == 2^LimbBits

Min2(a, b) == IF a <= b THEN a ELSE b

Max2(a, b) == IF a >= b THEN a ELSE b

\* raise ValueError(mensaje) in a __post_init__: no object is built
ValueError(mensaje) == [raised |-> TRUE, mensaje |-> mensaje]

\* whether a construction was refused
Rechazado(objeto) == "raised" \in DOMAIN objeto

RECURSIVE NatNorm(_)
NatNorm(a) ==
    IF a = <<>> THEN <<>>
    ELSE IF a[Len(a)] = 0 THEN NatNorm(SubSeq(a, 1, Len(a) - 1))
    ELSE a

RECURSIVE NatFromInt(_)
NatFromInt(k) ==
    IF k = 0 THEN <<>> ELSE <<k % Base>> \o NatFromInt(k \div Base)

RECURSIVE NatToInt(_)
NatToInt(a) ==
    IF a = <<>> THEN 0 ELSE Head(a) + Base * NatToInt(Tail(a))

RECURSIVE NatAddC(_, _, _)
NatAddC(a, b, c) ==
    IF a = <<>> /\ b = <<>> THEN (IF c = 0 THEN <<>> ELSE <<c>>)
    ELSE LET x == (IF a = <<>> THEN 0 ELSE Head(a))
                  + (IF b = <<>> THEN 0 ELSE Head(b)) + c
         IN  <<x % Base>> \o NatAddC(IF a = <<>> THEN <<>> ELSE Tail(a),
                                     IF b = <<>> THEN <<>> ELSE Tail(b),
                                     x \div Base)

NatAdd(a, b) == NatAddC(a, b, 0)

\* a - b - c for a >= b + c (c is the borrow)
RECURSIVE NatSubB(_, _, _)
NatSubB(a, b, c) ==
    IF a = <<>> THEN <<>>
    ELSE LET x == Head(a) - (IF b = <<>> THEN 0 ELSE Head(b)) - c
         IN  <<x % Base>> \o NatSubB(Tail(a),
                                     IF b = <<>> THEN <<>> ELSE Tail(b),
                                     IF x < 0 THEN 1 ELSE 0)

NatSub(a, b) == NatNorm(NatSubB(a, b, 0))

\* -1, 0, 1 as a < b, a = b, a > b (both without leading zero limbs)
RECURSIVE NatCmp(_, _)
NatCmp(a, b) ==
    IF Len(a) # Len(b) THEN (IF Len(a) < Len(b) THEN -1 ELSE 1)
    ELSE IF a = <<>> THEN 0
    ELSE IF a[Len(a)] # b[Len(b)] THEN (IF a[Len(a)] < b[Len(b)] THEN -1 ELSE 1)
    ELSE NatCmp(SubSeq(a, 1, Len(a) - 1), SubSeq(b, 1, Len(b) - 1))

\* a * k + c for a small k (k <= 2^16)
RECURSIVE NatMulSmallC(_, _, _)
NatMulSmallC(a, k, c) ==
    IF a = <<>> THEN NatFromInt(c)
    ELSE LET x == Head(a) * k + c
         IN  <<x % Base>> \o NatMulSmallC(Tail(a), k, x \div Base)

NatMulSmall(a, k) == IF k = 0 THEN <<>> ELSE NatMulSmallC(a, k, 0)

RECURSIVE NatMul(_, _)
NatMul(a, b) ==
    IF a = <<>> \/ b = <<>> THEN <<>>
    ELSE LET rest == NatMul(a, Tail(b))
         IN  NatAdd(NatMulSmall(a, Head(b)),
                    IF rest = <<>> THEN <<>> ELSE <<0>> \o rest)

\* quotient and remainder of a by a small n (0 < n <= 2^17)
RECURSIVE NatDivSmallR(_, _)
NatDivSmallR(a, n) ==
    IF a = <<>> THEN [q |-> <<>>, r |-> 0]
    ELSE LET hi  == NatDivSmallR(Tail(a), n)
             cur == hi.r * Base + Head(a)
         IN  [q |-> <<cur \div n>> \o hi.q, r |-> cur % n]

NatDivNorm(d) == [q |-> NatNorm(d.q), r |-> d.r]

NatDivSmall(a, n) == NatDivNorm(NatDivSmallR(a, n))

RECURSIVE NatShl(_, _)
NatShl(a, d) ==
    IF d = 0 \/ a = <<>> THEN a
    ELSE IF d >= LimbBits THEN NatShl(<<0>> \o a, d - LimbBits)
    ELSE NatMulSmall(a, 2^d)

\* a shifted right by d bits; st tells whether a nonzero bit was dropped
RECURSIVE NatShr(_, _)
NatShrStep(dv, d) ==
    [NatShr(dv.q, d) EXCEPT !.st = @ \/ dv.r # 0]

NatShr(a, d) ==
    IF d = 0 \/ a = <<>> THEN [q |-> a, st |-> FALSE]
    ELSE IF d >= LimbBits
    THEN NatShrStep(NatDivSmall(a, Base), d - LimbBits)
    ELSE NatShrStep(NatDivSmall(a, 2^d), 0)

RECURSIVE BitLenSmall(_)
BitLenSmall(x) == IF x = 0 THEN 0 ELSE 1 + BitLenSmall(x \div 2)

BitLen(a) ==
    IF a = <<>> THEN 0 ELSE LimbBits * (Len(a) - 1) + BitLenSmall(a[Len(a)])

(***************************************************************************)
(* binary64.  A nonzero value is (-1)^neg * man * 2^exp with man a 53-bit  *)
(* natural (2^52 <= man < 2^53); zero is FZero.  The values of this        *)
(* program stay far from overflow and from the subnormals.                 *)
(***************************************************************************)
MantBits == 53

FZero == [neg |-> FALSE, man |-> <<>>, exp |-> 0]

\* the binary64 nearest to (-1)^neg * (N + f) * 2^e, where 0 <= f < 1 and
\* sticky tells whether f > 0: round to nearest, ties to even.
\* FRoundCarry: the mantissa is rounded; a carry out of 53 bits halves it
FRoundCarry(neg, m, e) ==
    IF BitLen(m) > MantBits
    THEN [neg |-> neg, man |-> NatDivSmall(m, 2).q, exp |-> e + 1]
    ELSE [neg |-> neg, man |-> m, exp |-> e]

\* h.q is the mantissa cut to 53 bits, h.r the first bit dropped and st
\* tells whether a later bit dropped was set
FRoundHalf(neg, h, e, st) ==
    FRoundCarry(neg,
                IF h.r = 1 /\ (st \/ h.q[1] % 2 = 1)
                THEN NatAdd(h.q, <<1>>) ELSE h.q,
                e)

FRoundShift(neg, s1, e, sticky) ==
    FRoundHalf(neg, NatDivSmall(s1.q, 2), e, s1.st \/ sticky)

FRoundLen(neg, N, e, sticky, L) ==
    IF L <= MantBits
    THEN [neg |-> neg, man |-> NatShl(N, MantBits - L),
          exp |-> e - (MantBits - L)]
    ELSE FRoundShift(neg, NatShr(N, L - MantBits - 1), e + (L - MantBits),
                     sticky)

FRound(neg, N, e, sticky) ==
    IF N = <<>> THEN FZero ELSE FRoundLen(neg, N, e, sticky, BitLen(N))

\* float(k) for a Python int k
FInt(k) ==
    IF k = 0 THEN FZero
    ELSE FRound(k < 0, NatFromInt(IF k < 0 THEN -k ELSE k), 0, FALSE)

FNeg(x) == IF x.man = <<>> THEN x ELSE [x EXCEPT !.neg = ~x.neg]

\* X + Y or |X - Y| with the sign of the larger, for the mantissas X and Y
\* aligned on the exponent e; c compares X with Y
FAddSigned(xneg, yneg, X, Y, e, c) ==
    FRound(IF c >= 0 THEN xneg ELSE yneg,
           IF xneg = yneg THEN NatAdd(X, Y)
           ELSE IF c >= 0 THEN NatSub(X, Y) ELSE NatSub(Y, X),
           e, FALSE)

FAddAligned(xneg, yneg, X, Y, e) ==
    FAddSigned(xneg, yneg, X, Y, e, NatCmp(X, Y))

FAddExp(x, y, e) ==
    FAddAligned(x.neg, y.neg, NatShl(x.man, x.exp - e),
                NatShl(y.man, y.exp - e), e)

\* x + y
FAdd(x, y) ==
    IF x.man = <<>> THEN y
    ELSE IF y.man = <<>> THEN x
    ELSE FAddExp(x, y, Min2(x.exp, y.exp))

\* x - y
FSub(x, y) == FAdd(x, FNeg(y))

\* x * y
FMul(x, y) ==
    IF x.man = <<>> \/ y.man = <<>> THEN FZero
    ELSE FRound(x.neg # y.neg, NatMul(x.man, y.man), x.exp + y.exp, FALSE)

\* x / n for a float x and an int n > 0 (every division of the program
\* divides by a small positive integer value)
FDivRound(neg, dv, e) == FRound(neg, dv.q, e, dv.r # 0)

FDivInt(x, n) ==
    IF x.man = <<>> THEN FZero
    ELSE FDivRound(x.neg, NatDivSmall(NatShl(x.man, 5 * LimbBits), n),
                   x.exp - 5 * LimbBits)

\* the float literal a/b, for ints a, b > 0: the nearest binary64
FLit(a, b) == FDivInt(FInt(a), b)

Signed(neg, k) == IF neg THEN -k ELSE k

\* -1, 0, 1 as |x| < |y|, |x| = |y|, |x| > |y|
FCmpMag(x, y) ==
    IF x.man = <<>> THEN (IF y.man = <<>> THEN 0 ELSE -1)
    ELSE IF y.man = <<>> THEN 1
    ELSE IF x.exp # y.exp THEN (IF x.exp < y.exp THEN -1 ELSE 1)
    ELSE NatCmp(x.man, y.man)

\* -1, 0, 1 as x < y, x = y, x > y
FCmp(x, y) ==
    IF x.neg # y.neg THEN (IF x.neg THEN -1 ELSE 1)
    ELSE Signed(x.neg, FCmpMag(x, y))

FLt(x, y) == FCmp(x, y) < 0

FLe(x, y) == FCmp(x, y) <= 0

FMax(x, y) == IF FLt(x, y) THEN y ELSE x

\* a faulty minimum, which always takes its second argument
FMinSinTope(x, y) == y

FMin(x, y) == IF FLt(y, x) THEN y ELSE x

\* int(x): truncation toward zero
FTrunc(x) ==
    IF x.man = <<>> THEN 0
    ELSE Signed(x.neg,
                      NatToInt(IF x.exp >= 0 THEN NatShl(x.man, x.exp)
                               ELSE NatShr(x.man, -x.exp).q))

(***************************************************************************)
(* models/producto.py: the lot ledger of one product.  A product is a      *)
(* record of the dataclass fields; a lot is [cantidad, costo,              *)
(* fecha_ingreso], the date being the simulation day the lot came in.      *)
(***************************************************************************)
PEPS == "PEPS"

UEPS == "UEPS"

PROMEDIO == "PROMEDIO"

MetodoInventario == {PEPS, UEPS, PROMEDIO}

RECURSIVE SumaCantidades(_)
SumaCantidades(lotes) ==
    IF lotes = <<>> THEN 0
    ELSE Head(lotes).cantidad + SumaCantidades(Tail(lotes))

\* a faulty agregar_lote, which appends the lot without looking at the
\* capacity
agregar_lote_sin_tope(p, cantidad, costo, fecha) ==
    IF cantidad <= 0
    THEN [prod |-> p, exito |-> FALSE, raised |-> TRUE]
    ELSE [prod |-> [p EXCEPT
                      !.lotes = Append(@, [cantidad |-> cantidad,
                                           costo |-> costo,
                                           fecha_ingreso |-> fecha]),
                      !.nivel_inventario = @ + cantidad],
          exito |-> TRUE, raised |-> FALSE]

\* Producto.agregar_lote: [prod, exito, raised]
agregar_lote(p, cantidad, costo, fecha) ==
    IF cantidad <= 0
    THEN [prod |-> p, exito |-> FALSE, raised |-> TRUE]
    ELSE IF p.nivel_inventario + cantidad > p.capacidad_maxima
    THEN [prod |-> p, exito |-> FALSE, raised |-> FALSE]
    ELSE [prod |-> [p EXCEPT
                      !.lotes = Append(@, [cantidad |-> cantidad,
                                           costo |-> costo,
                                           fecha_ingreso |-> fecha]),
                      !.nivel_inventario = @ + cantidad],
          exito |-> TRUE, raised |-> FALSE]

\* list.sort(key=fecha_ingreso): stable, ascending
RECURSIVE InsertarAsc(_, _)
InsertarAsc(l, ord) ==
    IF ord = <<>> THEN <<l>>
    ELSE IF Head(ord).fecha_ingreso <= l.fecha_ingreso
    THEN <<Head(ord)>> \o InsertarAsc(l, Tail(ord))
    ELSE <<l>> \o ord

\* list.sort(key=fecha_ingreso, reverse=True): stable, descending
RECURSIVE InsertarDesc(_, _)
InsertarDesc(l, ord) ==
    IF ord = <<>> THEN <<l>>
    ELSE IF Head(ord).fecha_ingreso >= l.fecha_ingreso
    THEN <<Head(ord)>> \o InsertarDesc(l, Tail(ord))
    ELSE <<l>> \o ord

\* a faulty ordering, which leaves the lots in the order of their arrival
OrdenDeLlegada(lotes, metodo) == lotes

RECURSIVE OrdenarLotes(_, _)
OrdenarLotes(lotes, metodo) ==
    IF lotes = <<>> THEN <<>>
    ELSE LET antes == OrdenarLotes(SubSeq(lotes, 1, Len(lotes) - 1), metodo)
             l     == lotes[Len(lotes)]
         IN  IF metodo = PEPS THEN InsertarAsc(l, antes)
             ELSE IF metodo = UEPS THEN InsertarDesc(l, antes)
             ELSE lotes

\* the withdrawal loop of PEPS and UEPS over the ordered lots, with the
\* emptied lots removed: [lotes, retiradas, costo]
RECURSIVE RetirarDeLotes(_, _, _, _)
RetirarDeLotes(lotes, cantidad, retiradas, costo_total) ==
    IF lotes = <<>> \/ retiradas >= cantidad
    THEN [lotes |-> lotes, retiradas |-> retiradas, costo |-> costo_total]
    ELSE LET lote == Head(lotes)
             cantidad_a_retirar == Min2(lote.cantidad, cantidad - retiradas)
             resto == RetirarDeLotes(Tail(lotes), cantidad,
                         retiradas + cantidad_a_retirar,
                         FAdd(costo_total,
                              FMul(FInt(cantidad_a_retirar), lote.costo)))
             queda == lote.cantidad - cantidad_a_retirar
         IN  [resto EXCEPT
                !.lotes = IF queda = 0 THEN @
                          ELSE <<[lote EXCEPT !.cantidad = queda]>> \o @]

\* sum(l['cantidad'] * l['costo'] for l in lotes), left to right from 0
RECURSIVE CostoTotalInventario(_, _)
CostoTotalInventario(lotes, acc) ==
    IF lotes = <<>> THEN acc
    ELSE CostoTotalInventario(Tail(lotes),
             FAdd(acc, FMul(FInt(Head(lotes).cantidad), Head(lotes).costo)))

\* a faulty shrink, which leaves the quantity of the lot as it was
CantidadSinReducir(cantidad_lote, cantidad, nivel) == cantidad_lote

\* int(lote['cantidad'] * (1 - factor)) with factor = cantidad / nivel
CantidadProporcional(cantidad_lote, cantidad, nivel) ==
    FTrunc(FMul(FInt(cantidad_lote),
                FSub(FInt(1), FDivInt(FInt(cantidad), nivel))))

\* a faulty shrink, which keeps the lots it has emptied
LoteConservado(lote, q) == <<[lote EXCEPT !.cantidad = q]>>

\* one lot of the proportional shrink: kept with its new quantity q if q > 0
LoteReducido(lote, q) ==
    IF q > 0 THEN <<[lote EXCEPT !.cantidad = q]>> ELSE <<>>

\* the proportional shrink of PROMEDIO and the removal of the emptied lots
RECURSIVE ReducirLotes(_, _, _)
ReducirLotes(lotes, cantidad, nivel) ==
    IF lotes = <<>> THEN <<>>
    ELSE LoteReducido(Head(lotes),
                      CantidadProporcional(Head(lotes).cantidad, cantidad,
                                           nivel))
         \o ReducirLotes(Tail(lotes), cantidad, nivel)

\* the end of a PEPS or UEPS withdrawal: r is what the loop over the lots
\* left, withdrew and charged
RetiroPorLotes(p, r) ==
    [prod |-> [p EXCEPT !.nivel_inventario = @ - r.retiradas,
                        !.lotes = r.lotes],
     costo |-> r.costo, exito |-> TRUE, raised |-> FALSE]

\* Producto.retirar_unidades: [prod, costo, exito, raised]
retirar_unidades(p, cantidad, metodo) ==
    IF cantidad <= 0
    THEN [prod |-> p, costo |-> FZero, exito |-> FALSE, raised |-> TRUE]
    ELSE IF cantidad > p.nivel_inventario
    THEN [prod |-> p, costo |-> FZero, exito |-> FALSE, raised |-> FALSE]
    ELSE IF metodo = PROMEDIO /\ p.nivel_inventario > 0
    THEN [prod |-> [p EXCEPT
                      !.nivel_inventario = @ - cantidad,
                      !.lotes = ReducirLotes(@, cantidad, p.nivel_inventario)],
          costo |-> FMul(FDivInt(CostoTotalInventario(p.lotes, FZero),
                                 p.nivel_inventario),
                         FInt(cantidad)),
          exito |-> TRUE, raised |-> FALSE]
    ELSE RetiroPorLotes(p, RetirarDeLotes(OrdenarLotes(p.lotes, metodo),
                                          cantidad, 0, FZero))

\* a faulty reorder test that asks for stock whatever the level
siempre_necesita(p, factor_sensibilidad) == TRUE

\* Producto.necesita_reposicion
necesita_reposicion(p, factor_sensibilidad) ==
    FLe(FInt(p.nivel_inventario), FMul(FInt(p.punto_pedido), factor_sensibilidad))

\* Producto.calcular_stock_seguridad
calcular_stock_seguridad(p) ==
    FTrunc(FMul(FMul(p.demanda_estimada, FInt(p.tiempo_reposicion)),
                FLit(3, 2)))

(***************************************************************************)
(* models/finanzas.py: the financial ledger.                               *)
(***************************************************************************)
\* Finanzas(saldo_inicial=...): the dataclass and its __post_init__, which
\* refuses a negative opening balance
Finanzas(saldo_inicial) ==
    IF FLt(saldo_inicial, FZero)
    THEN ValueError("El saldo inicial no puede ser negativo")
    ELSE [saldo_inicial |-> saldo_inicial, saldo_actual |-> saldo_inicial,
          ingresos_totales |-> FZero, egresos_totales |-> FZero,
          ingresos_venta |-> FZero, egresos_compra |-> FZero,
          egresos_almacenamiento |-> FZero, egresos_penalizacion |-> FZero,
          transacciones |-> <<>>]

\* None, where a new opening balance is expected
NoSaldo == [valor |-> "None"]

\* a faulty reset that leaves the ledger as it is
finanzas_sin_reiniciar(f, nuevo_saldo_inicial) == [fin |-> f, raised |-> FALSE]

\* the ledger emptied, opening again with saldo_inicial
LibroReiniciado(f, saldo_inicial) ==
    [f EXCEPT !.saldo_inicial = saldo_inicial,
              !.saldo_actual = saldo_inicial,
              !.ingresos_totales = FZero, !.egresos_totales = FZero,
              !.ingresos_venta = FZero, !.egresos_compra = FZero,
              !.egresos_almacenamiento = FZero,
              !.egresos_penalizacion = FZero,
              !.transacciones = <<>>]

\* Finanzas.reiniciar(nuevo_saldo_inicial=None): [fin, raised].  A new
\* opening balance replaces the old one, unless it is negative: then the
\* call raises and the ledger stays as it was
finanzas_reiniciar(f, nuevo_saldo_inicial) ==
    IF nuevo_saldo_inicial = NoSaldo
    THEN [fin |-> LibroReiniciado(f, f.saldo_inicial), raised |-> FALSE]
    ELSE IF FLt(nuevo_saldo_inicial, FZero)
    THEN [fin |-> f, raised |-> TRUE]
    ELSE [fin |-> LibroReiniciado(f, nuevo_saldo_inicial), raised |-> FALSE]

\* Finanzas.registrar_ingreso: [fin, raised]
registrar_ingreso(f, monto, concepto, fecha, categoria) ==
    IF FLt(monto, FZero) THEN [fin |-> f, raised |-> TRUE]
    ELSE [fin |-> [f EXCEPT
                     !.ingresos_totales = FAdd(@, monto),
                     !.saldo_actual = FAdd(@, monto),
                     !.ingresos_venta =
                         IF categoria = "VENTA" THEN FAdd(@, monto) ELSE @,
                     !.transacciones =
                         Append(@, [fecha |-> fecha, tipo |-> "INGRESO",
                                    concepto |-> concepto, monto |-> monto,
                                    categoria |-> categoria])],
          raised |-> FALSE]

\* Finanzas.registrar_egreso: [fin, raised]
registrar_egreso(f, monto, concepto, fecha, categoria) ==
    IF FLt(monto, FZero) THEN [fin |-> f, raised |-> TRUE]
    ELSE [fin |-> [f EXCEPT
                     !.egresos_totales = FAdd(@, monto),
                     !.saldo_actual = FSub(@, monto),
                     !.egresos_compra =
                         IF categoria = "COMPRA" THEN FAdd(@, monto) ELSE @,
                     !.egresos_almacenamiento =
                         IF categoria = "ALMACENAMIENTO" THEN FAdd(@, monto)
                         ELSE @,
                     !.egresos_penalizacion =
                         IF categoria = "PENALIZACION" THEN FAdd(@, monto)
                         ELSE @,
                     !.transacciones =
                         Append(@, [fecha |-> fecha, tipo |-> "EGRESO",
                                    concepto |-> concepto, monto |-> monto,
                                    categoria |-> categoria])],
          raised |-> FALSE]

\* Finanzas.utilidad_neta
utilidad_neta(f) == FSub(f.ingresos_totales, f.egresos_totales)

\* Finanzas.tiene_saldo_suficiente
tiene_saldo_suficiente(f, monto) == FLe(monto, f.saldo_actual)

(***************************************************************************)
(* models/proveedor.py.  descuento_volumen maps a product id to            *)
(* <<minimum quantity, discount fraction>>.                                *)
(***************************************************************************)
\* the volume discount of calcular_costo_total
AplicarDescuento(v, producto_id, cantidad, costo_total) ==
    IF producto_id \in DOMAIN v.descuento_volumen
       /\ cantidad >= v.descuento_volumen[producto_id][1]
    THEN FMul(costo_total, FSub(FInt(1), v.descuento_volumen[producto_id][2]))
    ELSE costo_total

\* Proveedor.calcular_costo_total: [costo, raised].  A product cost of 0.0
\* is falsy and gives way to costo_base
calcular_costo_total(v, producto_id, cantidad, costo_unitario_producto) ==
    IF cantidad < 0 \/ producto_id \notin v.productos_ofrecidos
    THEN [costo |-> FZero, raised |-> TRUE]
    ELSE [costo |-> AplicarDescuento(v, producto_id, cantidad,
                       FMul(IF costo_unitario_producto # FZero
                            THEN costo_unitario_producto ELSE v.costo_base,
                            FInt(cantidad))),
          raised |-> FALSE]

\* Proveedor.puede_atender_pedido
puede_atender_pedido(v, producto_id, cantidad) ==
    producto_id \in v.productos_ofrecidos /\ cantidad >= v.minimo_pedido

\* Proveedor.agregar_descuento_volumen: [prov, raised].  The discount of
\* the product is added or replaced, unless the product is not offered, the
\* fraction lies outside [0, 1] or the minimum quantity is below 1
agregar_descuento_volumen(v, producto_id, cantidad_minima, porcentaje_descuento) ==
    IF \/ producto_id \notin v.productos_ofrecidos
       \/ FLt(porcentaje_descuento, FZero)
       \/ FLt(FInt(1), porcentaje_descuento)
       \/ cantidad_minima < 1
    THEN [prov |-> v, raised |-> TRUE]
    ELSE [prov |-> [v EXCEPT !.descuento_volumen =
                      [x \in DOMAIN @ \cup {producto_id} |->
                          IF x = producto_id
                          THEN <<cantidad_minima, porcentaje_descuento>>
                          ELSE @[x]]],
          raised |-> FALSE]

\* a faulty draw that can be late whatever the reliability
retraso_sin_fiabilidad(v) == 0..3

\* Proveedor.simular_retraso: the delays the draw can give.  random() lies
\* in [0, 1), so a supplier of reliability 1.0 is never late; any other is
\* on time or 1 to 3 days late (randint(1, 4))
simular_retraso(v) ==
    IF FLe(FInt(1), v.fiabilidad) THEN {0} ELSE 0..3

\* a faulty lead time, which leaves the supplier's tiempo_entrega out
tiempo_sin_entrega(v) == simular_retraso(v)

\* Proveedor.calcular_tiempo_entrega_real: the lead times it can give
calcular_tiempo_entrega_real(v) ==
    {v.tiempo_entrega + r : r \in simular_retraso(v)}

(***************************************************************************)
(* models/cliente.py                                                       *)
(***************************************************************************)
\* Cliente._ajustar_por_tipo_cliente
ajustar_por_tipo_cliente(c) ==
    IF c.tipo = "MAYORISTA" THEN FTrunc(FMul(FInt(c.cantidad_promedio), FInt(2)))
    ELSE IF c.tipo = "MINORISTA" THEN c.cantidad_promedio
    ELSE IF c.tipo = "INTERNO"
    THEN FTrunc(FMul(FInt(c.cantidad_promedio), FLit(6, 5)))
    ELSE FTrunc(FMul(FInt(c.cantidad_promedio), FLit(4, 5)))

\* Cliente.cambiar_estado
cambiar_estado(c, activo) == [c EXCEPT !.activo = activo]

\* Cliente.debe_realizar_pedido
debe_realizar_pedido(c, dia_actual) ==
    c.activo /\ dia_actual % c.frecuencia_compra = 0

\* a faulty penalty, which takes the priority factor off instead of adding
\* it to 1
penalizacion_con_resta(c, costo_base) ==
    FMul(costo_base, FSub(FDivInt(FInt(c.prioridad), 5), FInt(1)))

\* Cliente.obtener_penalizacion_desabastecimiento
obtener_penalizacion_desabastecimiento(c, costo_base) ==
    FMul(costo_base, FAdd(FInt(1), FDivInt(FInt(c.prioridad), 5)))

\* Cliente.registrar_compra
registrar_compra(c, cantidad, monto_gastado) ==
    [c EXCEPT !.total_compras = @ + cantidad,
              !.total_gastado = FAdd(@, monto_gastado),
              !.pedidos_realizados = @ + 1]

\* Cliente.registrar_desabastecimiento
registrar_desabastecimiento(c) ==
    [c EXCEPT !.desabastecimientos_sufridos = @ + 1]

\* Cliente.reiniciar_estadisticas
reiniciar_estadisticas(c) ==
    [c EXCEPT !.total_compras = 0, !.total_gastado = FZero,
              !.pedidos_realizados = 0, !.desabastecimientos_sufridos = 0]

(***************************************************************************)
(* core/gestor_pedidos.py: the replenishment policy engine.                *)
(***************************************************************************)
CONSERVADORA == "CONSERVADORA"

AGRESIVA == "AGRESIVA"

ADAPTATIVA == "ADAPTATIVA"

PoliticaReposicion == {CONSERVADORA, AGRESIVA, ADAPTATIVA}

\* GestorPedidos(politica)
GestorPedidos(politica) ==
    [politica |-> politica, sensibilidad |-> FInt(1),
     historial_decisiones |-> <<>>, pedidos_generados |-> 0,
     costo_total_pedidos |-> FZero, ultimo_cambio_politica |-> 0]

\* max(deficit, cantidad_base * 1.3), then int()
MaxDeficit(deficit, mas) ==
    IF FLt(FInt(deficit), mas) THEN FTrunc(mas) ELSE deficit

\* a faulty quantity, which is the base whatever the strategy and the stock
CantidadBase(g, p, base) == base

\* the quantity of each strategy, before the capacity clamp; base is
\* int(demanda_estimada * tiempo_reposicion)
CantidadSegunPolitica(g, p, base) ==
    IF g.politica = CONSERVADORA
    THEN Min2(base, Max2(0, p.punto_pedido - p.nivel_inventario)
                    + FTrunc(p.demanda_estimada))
    ELSE IF g.politica = AGRESIVA
    THEN FTrunc(FAdd(FMul(FMul(p.demanda_estimada, FInt(p.tiempo_reposicion)),
                          FLit(3, 2)),
                     FInt(calcular_stock_seguridad(p))))
    ELSE IF FLt(FMul(FInt(p.punto_pedido), FLit(1, 2)),
                FInt(p.punto_pedido - p.nivel_inventario))
    THEN MaxDeficit(p.punto_pedido - p.nivel_inventario,
                    FMul(FInt(base), FLit(13, 10)))
    ELSE base

\* a faulty quantity, which leaves out the capacity clamp
cantidad_sin_tope(g, p) ==
    CantidadSegunPolitica(g, p, FTrunc(FMul(p.demanda_estimada,
                                            FInt(p.tiempo_reposicion))))

\* GestorPedidos._calcular_cantidad_pedido
calcular_cantidad_pedido(g, p) ==
    Max2(0, Min2(CantidadSegunPolitica(g, p,
                     FTrunc(FMul(p.demanda_estimada,
                                 FInt(p.tiempo_reposicion)))),
                 p.capacidad_maxima - p.nivel_inventario))

\* a candidate of _seleccionar_proveedor, with its score
Candidato(v, costo) ==
    [proveedor |-> v, costo |-> costo,
     score |-> FMul(costo, FSub(FInt(2), v.fiabilidad))]

\* the candidates of _seleccionar_proveedor, in list order: the suppliers
\* that can serve the order
RECURSIVE ProveedoresValidos(_, _, _)
ProveedoresValidos(p, provs, cantidad) ==
    IF provs = <<>> THEN <<>>
    ELSE (IF puede_atender_pedido(Head(provs), p.id, cantidad)
          THEN <<Candidato(Head(provs),
                           calcular_costo_total(Head(provs), p.id, cantidad,
                                                p.costo_unitario).costo)>>
          ELSE <<>>)
         \o ProveedoresValidos(p, Tail(provs), cantidad)

\* min(candidates, key=score): the first of the lowest score
RECURSIVE MejorScore(_)
MejorDe(primero, m) == IF FLt(m.score, primero.score) THEN m ELSE primero

MejorScore(validos) ==
    IF Len(validos) = 1 THEN validos[1]
    ELSE MejorDe(Head(validos), MejorScore(Tail(validos)))

\* None, where a supplier is expected
NoProveedor == [id |-> "None"]

MejorProveedor(validos) ==
    IF validos = <<>> THEN NoProveedor ELSE MejorScore(validos).proveedor

\* a faulty choice, which takes the first supplier that can serve the order
primer_proveedor(p, provs, cantidad) ==
    IF ProveedoresValidos(p, provs, cantidad) = <<>> THEN NoProveedor
    ELSE ProveedoresValidos(p, provs, cantidad)[1].proveedor

\* GestorPedidos._seleccionar_proveedor
seleccionar_proveedor(p, provs, cantidad) ==
    MejorProveedor(ProveedoresValidos(p, provs, cantidad))

\* None, where a decision is expected
NoDecision == [producto_id |-> "None"]

\* the end of evaluar_pedido: the decision is recorded and counted
RegistrarDecision(g, decision) ==
    [gestor |-> [g EXCEPT
                   !.historial_decisiones = Append(@, decision),
                   !.pedidos_generados = @ + 1,
                   !.costo_total_pedidos = FAdd(@, decision.costo_total)],
     decision |-> decision]

PedidoAProveedor(g, p, cantidad, mejor_proveedor, dia_actual) ==
    IF mejor_proveedor.id = NoProveedor.id
    THEN [gestor |-> g, decision |-> NoDecision]
    ELSE RegistrarDecision(g,
             [producto_id |-> p.id, proveedor |-> mejor_proveedor.id,
              cantidad |-> cantidad,
              costo_total |-> calcular_costo_total(mejor_proveedor, p.id,
                                  cantidad, p.costo_unitario).costo,
              razon |-> <<g.politica, p.nivel_inventario>>,
              dia |-> dia_actual])

PedidoDeCantidad(g, p, provs, cantidad, dia_actual) ==
    IF cantidad <= 0 THEN [gestor |-> g, decision |-> NoDecision]
    ELSE PedidoAProveedor(g, p, cantidad,
                          seleccionar_proveedor(p, provs, cantidad),
                          dia_actual)

\* GestorPedidos.evaluar_pedido: [gestor, decision]
evaluar_pedido(g, p, provs, dia_actual) ==
    IF ~necesita_reposicion(p, g.sensibilidad)
    THEN [gestor |-> g, decision |-> NoDecision]
    ELSE PedidoDeCantidad(g, p, provs, calcular_cantidad_pedido(g, p),
                          dia_actual)

\* a faulty change of strategy, which lands on the adaptive one
cambiar_a_adaptativa(g, nueva_politica, dia_actual) ==
    [g EXCEPT !.politica = ADAPTATIVA, !.ultimo_cambio_politica = dia_actual]

\* GestorPedidos._cambiar_politica
cambiar_politica(g, nueva_politica, dia_actual) ==
    IF nueva_politica # g.politica
    THEN [g EXCEPT !.politica = nueva_politica,
                   !.ultimo_cambio_politica = dia_actual]
    ELSE g

\* a faulty guard of the cooldown, one day short
EnfriamientoCorto(g, dia_actual) == dia_actual - g.ultimo_cambio_politica < 6

\* the cooldown guard of evaluar_desempeno
EnEnfriamiento(g, dia_actual) == dia_actual - g.ultimo_cambio_politica < 7

\* utilidad < -saldo_inicial * fraccion
PerdidaMayor(metricas, fraccion) ==
    FLt(metricas.utilidad_neta, FMul(FNeg(metricas.saldo_inicial), fraccion))

\* a faulty review, which lets a Conservative engine lose up to 30% of the
\* opening balance before it lowers the sensitivity
RevisionTolerante(g, metricas, dia_actual) ==
    IF metricas.desabastecimientos > 5
    THEN [cambiar_politica(g, AGRESIVA, dia_actual)
             EXCEPT !.sensibilidad = FLit(6, 5)]
    ELSE IF PerdidaMayor(metricas, FLit(3, 10))
    THEN [g EXCEPT !.sensibilidad = FMax(FLit(1, 2), FSub(@, FLit(1, 10)))]
    ELSE g

\* a faulty review, which leaves a Conservative engine Conservative
\* whatever the stockouts
RevisionSinCambio(g, metricas, dia_actual) ==
    IF PerdidaMayor(metricas, FLit(1, 5))
    THEN [g EXCEPT !.sensibilidad = FMax(FLit(1, 2), FSub(@, FLit(1, 10)))]
    ELSE g

\* GestorPedidos.evaluar_desempeno, the branch of CONSERVADORA
RevisionConservadora(g, metricas, dia_actual) ==
    IF metricas.desabastecimientos > 5
    THEN [cambiar_politica(g, AGRESIVA, dia_actual)
             EXCEPT !.sensibilidad = FLit(6, 5)]
    ELSE IF PerdidaMayor(metricas, FLit(1, 5))
    THEN [g EXCEPT !.sensibilidad = FMax(FLit(1, 2), FSub(@, FLit(1, 10)))]
    ELSE g

\* a faulty review, which takes an Aggressive engine back to Conservative
\* on a profit alone
RevisionSinContar(g, metricas, dia_actual) ==
    IF PerdidaMayor(metricas, FLit(3, 10))
    THEN [cambiar_politica(g, CONSERVADORA, dia_actual)
             EXCEPT !.sensibilidad = FLit(4, 5)]
    ELSE IF FLt(FZero, metricas.utilidad_neta)
    THEN [cambiar_politica(g, CONSERVADORA, dia_actual)
             EXCEPT !.sensibilidad = FInt(1)]
    ELSE g

\* GestorPedidos.evaluar_desempeno, the branch of AGRESIVA
RevisionAgresiva(g, metricas, dia_actual) ==
    IF PerdidaMayor(metricas, FLit(3, 10))
    THEN [cambiar_politica(g, CONSERVADORA, dia_actual)
             EXCEPT !.sensibilidad = FLit(4, 5)]
    ELSE IF /\ metricas.desabastecimientos < 2
            /\ FLt(FZero, metricas.utilidad_neta)
    THEN [cambiar_politica(g, CONSERVADORA, dia_actual)
             EXCEPT !.sensibilidad = FInt(1)]
    ELSE g

\* a faulty review, which raises the sensitivity of an Adaptive engine
\* above 5 stockouts only
RevisionTardia(g, metricas, dia_actual) ==
    IF metricas.desabastecimientos > 5
    THEN [g EXCEPT !.sensibilidad = FMin(FInt(2), FAdd(@, FLit(1, 5)))]
    ELSE IF /\ metricas.desabastecimientos = 0
            /\ FLt(FZero, metricas.utilidad_neta)
    THEN [g EXCEPT !.sensibilidad = FMax(FLit(1, 2), FSub(@, FLit(1, 10)))]
    ELSE g

\* GestorPedidos.evaluar_desempeno, the branch of ADAPTATIVA
RevisionAdaptativa(g, metricas, dia_actual) ==
    IF metricas.desabastecimientos > 3
    THEN [g EXCEPT !.sensibilidad = FMin(FInt(2), FAdd(@, FLit(1, 5)))]
    ELSE IF /\ metricas.desabastecimientos = 0
            /\ FLt(FZero, metricas.utilidad_neta)
    THEN [g EXCEPT !.sensibilidad = FMax(FLit(1, 2), FSub(@, FLit(1, 10)))]
    ELSE g

\* GestorPedidos.evaluar_desempeno
evaluar_desempeno(g, metricas, dia_actual) ==
    IF EnEnfriamiento(g, dia_actual) THEN g
    ELSE IF g.politica = CONSERVADORA
    THEN RevisionConservadora(g, metricas, dia_actual)
    ELSE IF g.politica = AGRESIVA
    THEN RevisionAgresiva(g, metricas, dia_actual)
    ELSE RevisionAdaptativa(g, metricas, dia_actual)

\* GestorPedidos.reiniciar: the fields it assigns; politica is not among
\* them
gestor_reiniciar(g) ==
    [g EXCEPT !.sensibilidad = FInt(1), !.historial_decisiones = <<>>,
              !.pedidos_generados = 0, !.costo_total_pedidos = FZero,
              !.ultimo_cambio_politica = 0]

(***************************************************************************)
(* core/simulador.py: the simulation engine.                               *)
(*                                                                         *)
(* productos is the dict of products in insertion order, proveedores and   *)
(* clientes the lists.  fecha_actual advances one day per simulated day,   *)
(* so a date is the day number.  pc is the position inside avanzar_dia:    *)
(* "listo" between two days, else the phase about to run, and cursor the   *)
(* position inside the loop of that phase.  corrida is the simular_dias    *)
(* call under way: its argument n, the day it started on and the days it   *)
(* still has to run.  error tells that an exception left avanzar_dia.      *)
(* ultimo observes the last call: its name, its arguments, its result and  *)
(* antes, the state it started from.                                       *)
(***************************************************************************)
VARIABLES metodo_inventario, dia_simulacion, productos, proveedores,
          clientes, gestor, finanzas, pedidos_pendientes, eventos_log,
          desabastecimientos, ventas_totales, unidades_vendidas,
          pc, cursor, corrida, error, ultimo

vars == <<metodo_inventario, dia_simulacion, productos, proveedores,
          clientes, gestor, finanzas, pedidos_pendientes, eventos_log,
          desabastecimientos, ventas_totales, unidades_vendidas,
          pc, cursor, corrida, error, ultimo>>

\* SimuladorInventario.costo_almacenamiento = 0.1
costo_almacenamiento == FLit(1, 10)

\* SimuladorInventario.costo_desabastecimiento_base = 50.0
costo_desabastecimiento_base == FInt(50)

\* the index of the product of id pid in productos (0: not registered)
IndiceProducto(prods, pid) ==
    IF \E i \in 1..Len(prods) : prods[i].id = pid
    THEN CHOOSE i \in 1..Len(prods) : prods[i].id = pid
    ELSE 0

ProveedorDeId(provs, vid) ==
    provs[CHOOSE i \in 1..Len(provs) : provs[i].id = vid]

\* the demand events of a day, in the order of _procesar_demandas: for each
\* customer due today, each requested product that is registered
RECURSIVE DemandasDeCliente(_, _, _)
DemandasDeCliente(i, solicitados, prods) ==
    IF solicitados = <<>> THEN <<>>
    ELSE (IF IndiceProducto(prods, Head(solicitados)) # 0
          THEN <<[cliente |-> i, producto_id |-> Head(solicitados)]>>
          ELSE <<>>)
         \o DemandasDeCliente(i, Tail(solicitados), prods)

RECURSIVE DemandasDelDia(_, _, _, _)
DemandasDelDia(cls, i, prods, dia) ==
    IF i > Len(cls) THEN <<>>
    ELSE (IF debe_realizar_pedido(cls[i], dia)
          THEN DemandasDeCliente(i, cls[i].productos_solicitados, prods)
          ELSE <<>>)
         \o DemandasDelDia(cls, i + 1, prods, dia)

\* the floats: sign, significand in limbs, exponent of two
Flotantes == [neg : BOOLEAN, man : Seq(0..(Base - 1)), exp : Int]

\* np.random.normal(loc, scale): with no spread the draw is the mean; else
\* it is any float (scale is never negative: Cliente.__post_init__ keeps
\* variabilidad in [0, 1])
normal(loc, scale) ==
    IF FCmp(scale, FZero) = 0 THEN {loc} ELSE Flotantes

\* t, the integer part of a float, moved to the nearest integer given the
\* fraction resto left over: a tie goes to the even neighbour
RedondearCon(t, resto) ==
    IF FLt(FLit(1, 2), resto) THEN t + 1
    ELSE IF FLt(resto, FNeg(FLit(1, 2))) THEN t - 1
    ELSE IF FCmp(resto, FLit(1, 2)) = 0
    THEN (IF t % 2 = 0 THEN t ELSE t + 1)
    ELSE IF FCmp(resto, FNeg(FLit(1, 2))) = 0
    THEN (IF t % 2 = 0 THEN t ELSE t - 1)
    ELSE t

RedondearDesde(x, t) == RedondearCon(t, FSub(x, FInt(t)))

\* int(round(x))
Redondear(x) == RedondearDesde(x, FTrunc(x))

\* whether generar_demanda returns 0 without drawing
SinDemanda(c, producto_id) ==
    ~(\E k \in 1..Len(c.productos_solicitados) :
         c.productos_solicitados[k] = producto_id) \/ ~c.activo

\* the draws np.random.normal can give to generar_demanda (0.0 stands for
\* no draw)
MuestrasDeDemanda(c, producto_id) ==
    IF SinDemanda(c, producto_id) THEN {FZero}
    ELSE normal(FInt(ajustar_por_tipo_cliente(c)),
                FMul(FInt(ajustar_por_tipo_cliente(c)), c.variabilidad))

\* Cliente.generar_demanda, muestra being the draw of np.random.normal
generar_demanda(c, producto_id, muestra) ==
    IF SinDemanda(c, producto_id) THEN 0
    ELSE Max2(1, Redondear(muestra))

HayEntregas(pend, dia) == \E k \in 1..Len(pend) : pend[k].dia_llegada = dia

\* a faulty calendar, which reviews the system every 5 days
RevisionCadaCincoDias(dia) == IF dia % 5 = 0 THEN "evaluacion" ELSE "listo"

\* where avanzar_dia stands once a phase has finished
TrasAlmacenamiento(dia) == IF dia % 7 = 0 THEN "evaluacion" ELSE "listo"

\* a faulty day that leaves out the delivery phase
SinFaseDeEntregas(pend, dia) == "almacenamiento"

TrasInventario(pend, dia) ==
    IF HayEntregas(pend, dia) THEN "entregas" ELSE "almacenamiento"

TrasDemandas(prods, pend, dia) ==
    IF prods # <<>> THEN "inventario" ELSE TrasInventario(pend, dia)

\* what a call may write, as it stands before the call
Antes ==
    [dia_simulacion |-> dia_simulacion, productos |-> productos,
     clientes |-> clientes, gestor |-> gestor, finanzas |-> finanzas,
     pedidos_pendientes |-> pedidos_pendientes, eventos_log |-> eventos_log,
     desabastecimientos |-> desabastecimientos,
     ventas_totales |-> ventas_totales,
     unidades_vendidas |-> unidades_vendidas]

\* the same, as the record a phase works on; raised tells that an exception
\* left the phase
EstadoActual ==
    [productos |-> productos, clientes |-> clientes, gestor |-> gestor,
     finanzas |-> finanzas, pedidos_pendientes |-> pedidos_pendientes,
     eventos_log |-> eventos_log, desabastecimientos |-> desabastecimientos,
     ventas_totales |-> ventas_totales,
     unidades_vendidas |-> unidades_vendidas, raised |-> FALSE]

\* the phase leaves st behind
Escribir(st) ==
    /\ productos' = st.productos
    /\ clientes' = st.clientes
    /\ gestor' = st.gestor
    /\ finanzas' = st.finanzas
    /\ pedidos_pendientes' = st.pedidos_pendientes
    /\ eventos_log' = st.eventos_log
    /\ desabastecimientos' = st.desabastecimientos
    /\ ventas_totales' = st.ventas_totales
    /\ unidades_vendidas' = st.unidades_vendidas
    /\ error' = st.raised

Evento(dia, tipo, datos) == [dia |-> dia, tipo |-> tipo, datos |-> datos]

\* one turn of the loop of simular_dias: avanzar_dia, up to the first phase
\* that has something to do
AvanzarDia ==
    /\ pc = "listo" /\ ~error
    /\ corrida.restantes > 0
    /\ corrida' = [corrida EXCEPT !.restantes = @ - 1]
    /\ dia_simulacion' = dia_simulacion + 1
    /\ pc' = IF DemandasDelDia(clientes, 1, productos, dia_simulacion + 1) # <<>>
             THEN "demandas"
             ELSE TrasDemandas(productos, pedidos_pendientes,
                               dia_simulacion + 1)
    /\ cursor' = 1
    /\ ultimo' = [op |-> "avanzar_dia", antes |-> Antes]
    /\ UNCHANGED <<metodo_inventario, productos, proveedores, clientes,
                   gestor, finanzas, pedidos_pendientes, eventos_log,
                   desabastecimientos, ventas_totales, unidades_vendidas,
                   error>>

\* the sale of _atender_demanda once the units are withdrawn: f is what
\* registrar_ingreso gave
RegistrarVenta(st, ci, pi, cantidad, costo, ingreso, f) ==
    IF f.raised THEN [st EXCEPT !.raised = TRUE]
    ELSE [st EXCEPT
            !.finanzas = f.fin,
            !.clientes[ci] = registrar_compra(@, cantidad, ingreso),
            !.ventas_totales = @ + 1,
            !.unidades_vendidas = @ + cantidad,
            !.eventos_log = Append(@, Evento(dia_simulacion, "VENTA",
                [cliente |-> st.clientes[ci].nombre,
                 producto |-> st.productos[pi].id, cantidad |-> cantidad,
                 ingreso |-> ingreso, costo |-> costo]))]

\* the branch of _atender_demanda with enough stock: r is what
\* retirar_unidades gave
Vender(st, ci, pi, cantidad, r, ingreso) ==
    IF r.raised THEN [st EXCEPT !.raised = TRUE]
    ELSE IF ~r.exito THEN [st EXCEPT !.productos[pi] = r.prod]
    ELSE RegistrarVenta([st EXCEPT !.productos[pi] = r.prod], ci, pi,
                        cantidad, r.costo, ingreso,
                        registrar_ingreso(st.finanzas, ingreso,
                            <<"Venta a", st.clientes[ci].nombre>>,
                            dia_simulacion, "VENTA"))

\* the stockout of _atender_demanda once it is counted: f is what
\* registrar_egreso gave
RegistrarDesabastecimiento(st, ci, pi, cantidad, penalizacion, f) ==
    IF f.raised THEN [st EXCEPT !.raised = TRUE]
    ELSE [st EXCEPT
            !.finanzas = f.fin,
            !.clientes[ci] = registrar_desabastecimiento(@),
            !.eventos_log = Append(@, Evento(dia_simulacion,
                "DESABASTECIMIENTO",
                [cliente |-> st.clientes[ci].nombre,
                 producto |-> st.productos[pi].id,
                 cantidad_solicitada |-> cantidad,
                 inventario_disponible |-> st.productos[pi].nivel_inventario,
                 penalizacion |-> penalizacion]))]

\* a faulty stockout, which is logged and charged but not counted
DesabastecerSinContar(st, ci, pi, cantidad, penalizacion) ==
    RegistrarDesabastecimiento(st, ci, pi, cantidad, penalizacion,
                               registrar_egreso(st.finanzas, penalizacion,
                                   <<"Desabastecimiento",
                                     st.clientes[ci].nombre>>,
                                   dia_simulacion, "PENALIZACION"))

\* the branch of _atender_demanda without enough stock
Desabastecer(st, ci, pi, cantidad, penalizacion) ==
    RegistrarDesabastecimiento([st EXCEPT !.desabastecimientos = @ + 1],
                               ci, pi, cantidad, penalizacion,
                               registrar_egreso(st.finanzas, penalizacion,
                                   <<"Desabastecimiento",
                                     st.clientes[ci].nombre>>,
                                   dia_simulacion, "PENALIZACION"))

\* _atender_demanda(cliente, producto_id, cantidad), for the customer at ci
\* and the product at pi
atender_demanda(st, ci, pi, cantidad) ==
    IF st.productos[pi].nivel_inventario >= cantidad
    THEN Vender(st, ci, pi, cantidad,
                retirar_unidades(st.productos[pi], cantidad,
                                 metodo_inventario),
                FMul(FInt(cantidad), st.productos[pi].precio_venta))
    ELSE Desabastecer(st, ci, pi, cantidad,
                      obtener_penalizacion_desabastecimiento(
                          st.clientes[ci], costo_desabastecimiento_base))

\* the demand event ev of the events evs of today is settled and left st
DemandaAtendida(evs, ev, cantidad, st) ==
    /\ Escribir(st)
    /\ ultimo' = [op |-> "atender_demanda", cliente |-> ev.cliente,
                  producto_id |-> ev.producto_id, cantidad |-> cantidad,
                  antes |-> Antes]
    /\ pc' = IF st.raised \/ cursor < Len(evs) THEN "demandas"
             ELSE TrasDemandas(st.productos, st.pedidos_pendientes,
                               dia_simulacion)
    /\ cursor' = IF ~st.raised /\ cursor < Len(evs) THEN cursor + 1
                 ELSE IF st.raised THEN cursor ELSE 1

\* one turn of the loop of _procesar_demandas: generar_demanda takes its draw
\* and the demand it gives, if any, is attended
GenerarYAtender(evs, ev) ==
    \E muestra \in MuestrasDeDemanda(clientes[ev.cliente], ev.producto_id) :
    \E cantidad \in {generar_demanda(clientes[ev.cliente], ev.producto_id,
                                     muestra)} :
       DemandaAtendida(evs, ev, cantidad,
           IF cantidad > 0
           THEN atender_demanda(EstadoActual, ev.cliente,
                                IndiceProducto(productos, ev.producto_id),
                                cantidad)
           ELSE EstadoActual)

DemandaEnCurso(evs) == GenerarYAtender(evs, evs[cursor])

\* one turn of the loop of _procesar_demandas: the demand event at cursor
ProcesarDemanda ==
    /\ pc = "demandas" /\ ~error
    /\ DemandaEnCurso(DemandasDelDia(clientes, 1, productos, dia_simulacion))
    /\ UNCHANGED <<corrida, metodo_inventario, dia_simulacion, proveedores>>

\* whether _evaluar_inventario places the order of a decision
SePide(f, decision) ==
    /\ decision.producto_id # NoDecision.producto_id
    /\ tiene_saldo_suficiente(f, decision.costo_total)

\* the lead times the supplier of a decision can take
TiemposDeEntrega(f, decision) ==
    IF SePide(f, decision)
    THEN calcular_tiempo_entrega_real(
             ProveedorDeId(proveedores, decision.proveedor))
    ELSE {0}

\* the affordable branch of _evaluar_inventario: the pending order and its
\* event
ColocarPedido(st, decision, nombre_proveedor, dias_entrega) ==
    [st EXCEPT
       !.pedidos_pendientes = Append(@,
           [producto_id |-> decision.producto_id,
            proveedor |-> decision.proveedor,
            cantidad |-> decision.cantidad,
            costo |-> decision.costo_total,
            dia_pedido |-> dia_simulacion,
            dia_llegada |-> dia_simulacion + dias_entrega]),
       !.eventos_log = Append(@, Evento(dia_simulacion, "PEDIDO",
           [producto |-> decision.producto_id,
            proveedor |-> nombre_proveedor,
            cantidad |-> decision.cantidad,
            costo |-> decision.costo_total,
            dias_entrega |-> dias_entrega]))]

\* a faulty loop body, which places no order for a product that has one
\* pending
evaluar_sin_repetir(st, r, dias_entrega) ==
    IF /\ SePide(st.finanzas, r.decision)
       /\ \A k \in DOMAIN st.pedidos_pendientes :
             st.pedidos_pendientes[k].producto_id # r.decision.producto_id
    THEN ColocarPedido([st EXCEPT !.gestor = r.gestor], r.decision,
             ProveedorDeId(proveedores, r.decision.proveedor).nombre,
             dias_entrega)
    ELSE [st EXCEPT !.gestor = r.gestor]

\* the body of the loop of _evaluar_inventario once evaluar_pedido gave r
evaluar_producto(st, r, dias_entrega) ==
    IF SePide(st.finanzas, r.decision)
    THEN ColocarPedido([st EXCEPT !.gestor = r.gestor], r.decision,
             ProveedorDeId(proveedores, r.decision.proveedor).nombre,
             dias_entrega)
    ELSE [st EXCEPT !.gestor = r.gestor]

ProductoEvaluado(producto_id, decision, st) ==
    /\ Escribir(st)
    /\ ultimo' = [op |-> "evaluar_inventario", producto_id |-> producto_id,
                  decision |-> decision, antes |-> Antes]
    /\ pc' = IF cursor < Len(productos) THEN "inventario"
             ELSE TrasInventario(st.pedidos_pendientes, dia_simulacion)
    /\ cursor' = IF cursor < Len(productos) THEN cursor + 1 ELSE 1

PedirYRegistrar(producto_id, r) ==
    \E dias_entrega \in TiemposDeEntrega(finanzas, r.decision) :
       ProductoEvaluado(producto_id, r.decision,
                        evaluar_producto(EstadoActual, r, dias_entrega))

\* one turn of the loop of _evaluar_inventario: the product at cursor
EvaluarInventario ==
    /\ pc = "inventario" /\ ~error
    /\ PedirYRegistrar(productos[cursor].id,
                       evaluar_pedido(gestor, productos[cursor], proveedores,
                                      dia_simulacion))
    /\ UNCHANGED <<corrida, metodo_inventario, dia_simulacion, proveedores>>

\* list.remove(x): the list without its first element equal to x
RECURSIVE Remover(_, _)
Remover(lista, x) ==
    IF lista = <<>> THEN <<>>
    ELSE IF Head(lista) = x THEN Tail(lista)
    ELSE <<Head(lista)>> \o Remover(Tail(lista), x)

\* the first pending order due on dia
PrimeraEntrega(pend, dia) ==
    pend[CHOOSE k \in 1..Len(pend) :
            /\ pend[k].dia_llegada = dia
            /\ \A j \in 1..(k - 1) : pend[j].dia_llegada # dia]

\* the accepted delivery of _procesar_entregas: f is what registrar_egreso
\* gave
RegistrarRecepcion(st, entrega, nombre_proveedor, f) ==
    IF f.raised THEN [st EXCEPT !.raised = TRUE]
    ELSE [st EXCEPT
            !.finanzas = f.fin,
            !.eventos_log = Append(@, Evento(dia_simulacion, "RECEPCION",
                [producto |-> entrega.producto_id,
                 cantidad |-> entrega.cantidad,
                 egreso |-> entrega.costo,
                 proveedor |-> nombre_proveedor])),
            !.pedidos_pendientes = Remover(@, entrega)]

\* a faulty loop body, which keeps the order it could not store
RecibirOGuardar(st, entrega, pi, nombre_proveedor, r) ==
    IF r.raised THEN [st EXCEPT !.raised = TRUE]
    ELSE IF ~r.exito
    THEN st
    ELSE RegistrarRecepcion([st EXCEPT !.productos[pi] = r.prod], entrega,
             nombre_proveedor,
             registrar_egreso(st.finanzas, entrega.costo,
                              <<"Compra a", nombre_proveedor>>,
                              dia_simulacion, "COMPRA"))

\* the body of the loop of _procesar_entregas once agregar_lote gave r
Recibir(st, entrega, pi, nombre_proveedor, r) ==
    IF r.raised THEN [st EXCEPT !.raised = TRUE]
    ELSE IF ~r.exito
    THEN [st EXCEPT !.pedidos_pendientes = Remover(@, entrega)]
    ELSE RegistrarRecepcion([st EXCEPT !.productos[pi] = r.prod], entrega,
             nombre_proveedor,
             registrar_egreso(st.finanzas, entrega.costo,
                              <<"Compra a", nombre_proveedor>>,
                              dia_simulacion, "COMPRA"))

procesar_entrega(st, entrega, pi) ==
    Recibir(st, entrega, pi,
            ProveedorDeId(proveedores, entrega.proveedor).nombre,
            agregar_lote(st.productos[pi], entrega.cantidad,
                         FDivInt(entrega.costo, entrega.cantidad),
                         dia_simulacion))

EntregaProcesada(entrega, st) ==
    /\ Escribir(st)
    /\ ultimo' = [op |-> "procesar_entrega", entrega |-> entrega,
                  antes |-> Antes]
    /\ pc' = IF st.raised \/ HayEntregas(st.pedidos_pendientes, dia_simulacion)
             THEN "entregas" ELSE "almacenamiento"

EntregaEnCurso(entrega) ==
    EntregaProcesada(entrega,
        procesar_entrega(EstadoActual, entrega,
                         IndiceProducto(productos, entrega.producto_id)))

\* one turn of the loop of _procesar_entregas: the first pending order due
\* today (the orders due today are taken in list order, each removed)
ProcesarEntrega ==
    /\ pc = "entregas" /\ ~error
    /\ EntregaEnCurso(PrimeraEntrega(pedidos_pendientes, dia_simulacion))
    /\ UNCHANGED <<corrida, metodo_inventario, dia_simulacion, proveedores,
                   cursor>>

\* the sum of _registrar_costos_almacenamiento, from the int 0
RECURSIVE CostoAlmacenamientoTotal(_, _)
CostoAlmacenamientoTotal(prods, acc) ==
    IF prods = <<>> THEN acc
    ELSE CostoAlmacenamientoTotal(Tail(prods),
             FAdd(acc, FMul(FInt(Head(prods).nivel_inventario),
                            costo_almacenamiento)))

CobrarAlmacenamiento(st, f) ==
    IF f.raised THEN [st EXCEPT !.raised = TRUE]
    ELSE [st EXCEPT !.finanzas = f.fin]

\* a faulty phase, which records the holding cost of a day even when it is 0
cobrar_siempre(st, costo_total) ==
    CobrarAlmacenamiento(st,
        registrar_egreso(st.finanzas, costo_total,
                         <<"Almacenamiento diario">>, dia_simulacion,
                         "ALMACENAMIENTO"))

registrar_costos_almacenamiento(st, costo_total) ==
    IF FLt(FZero, costo_total)
    THEN CobrarAlmacenamiento(st,
             registrar_egreso(st.finanzas, costo_total,
                              <<"Almacenamiento diario">>, dia_simulacion,
                              "ALMACENAMIENTO"))
    ELSE st

AlmacenamientoRegistrado(st) ==
    /\ Escribir(st)
    /\ ultimo' = [op |-> "registrar_costos_almacenamiento", antes |-> Antes]
    /\ pc' = IF st.raised THEN "almacenamiento"
             ELSE TrasAlmacenamiento(dia_simulacion)

\* _registrar_costos_almacenamiento
RegistrarCostosAlmacenamiento ==
    /\ pc = "almacenamiento" /\ ~error
    /\ AlmacenamientoRegistrado(
           registrar_costos_almacenamiento(EstadoActual,
               CostoAlmacenamientoTotal(productos, FZero)))
    /\ UNCHANGED <<corrida, metodo_inventario, dia_simulacion, proveedores,
                   cursor>>

RECURSIVE InventarioTotal(_)
InventarioTotal(prods) ==
    IF prods = <<>> THEN 0
    ELSE Head(prods).nivel_inventario + InventarioTotal(Tail(prods))

\* the metrics _evaluar_sistema hands to the policy engine
Metricas(st) ==
    [utilidad_neta |-> utilidad_neta(st.finanzas),
     desabastecimientos |-> st.desabastecimientos,
     inventario_promedio |->
         IF Len(st.productos) > 0
         THEN FDivInt(FInt(InventarioTotal(st.productos)), Len(st.productos))
         ELSE FZero,
     saldo_inicial |-> st.finanzas.saldo_inicial]

\* a faulty record, which logs a change of strategy at every review
RegistrarSiempre(st, politica_anterior, g) ==
    [st EXCEPT
        !.gestor = g,
        !.eventos_log = Append(@, Evento(dia_simulacion,
            "CAMBIO_POLITICA",
            [politica_anterior |-> politica_anterior,
             politica_nueva |-> g.politica,
             razon |-> "Evaluacion periodica de desempeno"]))]

\* the end of _evaluar_sistema: g is the policy engine after the review
RegistrarCambio(st, politica_anterior, g) ==
    IF g.politica # politica_anterior
    THEN [st EXCEPT
            !.gestor = g,
            !.eventos_log = Append(@, Evento(dia_simulacion,
                "CAMBIO_POLITICA",
                [politica_anterior |-> politica_anterior,
                 politica_nueva |-> g.politica,
                 razon |-> "Evaluacion periodica de desempeno"]))]
    ELSE [st EXCEPT !.gestor = g]

evaluar_sistema(st) ==
    RegistrarCambio(st, st.gestor.politica,
                    evaluar_desempeno(st.gestor, Metricas(st),
                                      dia_simulacion))

\* _evaluar_sistema, on the days that are multiples of 7
EvaluarSistema ==
    /\ pc = "evaluacion" /\ ~error
    /\ Escribir(evaluar_sistema(EstadoActual))
    /\ ultimo' = [op |-> "evaluar_sistema", antes |-> Antes]
    /\ pc' = "listo"
    /\ UNCHANGED <<corrida, metodo_inventario, dia_simulacion, proveedores,
                   cursor>>

\* self.fecha_actual: datetime.now() read at construction, plus one day per
\* simulated day; reloj is the reading, in days
fecha_actual(reloj, dia) == reloj + dia

\* SimuladorInventario.obtener_estado of the engine st built at the clock
\* reading reloj; the balance and the statistics are given by the fields
\* they are computed from
obtener_estado(st, dia, reloj) ==
    [dia |-> dia,
     fecha |-> fecha_actual(reloj, dia),
     productos |-> [i \in DOMAIN st.productos |->
                       [id |-> st.productos[i].id,
                        nombre |-> st.productos[i].nombre,
                        inventario |-> st.productos[i].nivel_inventario,
                        punto_pedido |-> st.productos[i].punto_pedido,
                        num_lotes |-> Len(st.productos[i].lotes)]],
     finanzas |-> [saldo_inicial |-> st.finanzas.saldo_inicial,
                   saldo_actual |-> st.finanzas.saldo_actual,
                   ingresos_totales |-> st.finanzas.ingresos_totales,
                   egresos_totales |-> st.finanzas.egresos_totales,
                   num_transacciones |-> Len(st.finanzas.transacciones)],
     gestor |-> [politica_actual |-> st.gestor.politica,
                 sensibilidad |-> st.gestor.sensibilidad,
                 pedidos_generados |-> st.gestor.pedidos_generados,
                 costo_total_pedidos |-> st.gestor.costo_total_pedidos,
                 ultimo_cambio_politica |->
                     st.gestor.ultimo_cambio_politica],
     metricas |-> [desabastecimientos |-> st.desabastecimientos,
                   ventas_totales |-> st.ventas_totales,
                   unidades_vendidas |-> st.unidades_vendidas,
                   pedidos_pendientes |-> Len(st.pedidos_pendientes)]]

\* the index before the first element of lista[-cantidad:]: a negative
\* start counts from the end and stops at the front of the list, and -0 is
\* the start 0
InicioDeRecientes(n, cantidad) ==
    IF cantidad > 0 THEN Max2(n - cantidad, 0) ELSE Min2(0 - cantidad, n)

\* the dict obtener_eventos_recientes makes of an event; the value of a
\* TipoEvento is its name
EventoDict(e) == [dia |-> e.dia, tipo |-> e.tipo, datos |-> e.datos]

\* SimuladorInventario.obtener_eventos_recientes(cantidad): the list
\* returned
obtener_eventos_recientes(log, cantidad) ==
    [k \in 1..(Len(log) - InicioDeRecientes(Len(log), cantidad)) |->
        EventoDict(log[InicioDeRecientes(Len(log), cantidad) + k])]

\* a faulty export, which lists the newest event first
exportar_al_reves(log) ==
    [k \in 1..Len(log) |->
        log[Len(log) + 1 - k].datos
        @@ [dia |-> log[Len(log) + 1 - k].dia,
            tipo |-> log[Len(log) + 1 - k].tipo]]

\* SimuladorInventario.exportar_eventos: for each event the dict {'dia',
\* 'tipo', **datos}, where a key of datos wins over 'dia' and 'tipo'
exportar_eventos(log) ==
    [k \in 1..Len(log) |->
        log[k].datos @@ [dia |-> log[k].dia, tipo |-> log[k].tipo]]

\* a faulty registration that stores the product whatever its id
agregar_producto_sin_comprobar(prods, producto) ==
    [exito |-> TRUE, productos |-> Append(prods, producto)]

\* SimuladorInventario.agregar_producto: [exito, productos].  The dict of
\* products is the sequence of its values in insertion order
agregar_producto(prods, producto) ==
    IF \E i \in DOMAIN prods : prods[i].id = producto.id
    THEN [exito |-> FALSE, productos |-> prods]
    ELSE [exito |-> TRUE, productos |-> Append(prods, producto)]

\* SimuladorInventario.reiniciar, called between two days
Reiniciar ==
    /\ pc = "listo" /\ ~error
    /\ dia_simulacion' = 0
    /\ productos' = [i \in DOMAIN productos |->
                        [productos[i] EXCEPT !.nivel_inventario = 0,
                                             !.lotes = <<>>]]
    /\ clientes' = [i \in DOMAIN clientes |->
                       reiniciar_estadisticas(clientes[i])]
    /\ gestor' = gestor_reiniciar(gestor)
    /\ finanzas' = finanzas_reiniciar(finanzas, NoSaldo).fin
    /\ pedidos_pendientes' = <<>>
    /\ eventos_log' = <<>>
    /\ desabastecimientos' = 0
    /\ ventas_totales' = 0
    /\ unidades_vendidas' = 0
    /\ ultimo' = [op |-> "reiniciar", antes |-> Antes]
    /\ UNCHANGED <<metodo_inventario, proveedores, pc, cursor, corrida,
                   error>>

(***************************************************************************)
(* The entities of the runs checked, built as test_simulador.py builds     *)
(* them: constructor, then agregar_lote for the opening stock, then        *)
(* agregar_producto / agregar_proveedor / agregar_cliente.                 *)
(***************************************************************************)
\* Producto(...): the dataclass, with no stock and no lots, and its
\* __post_init__, which refuses a price not above the cost and a negative
\* reorder point
Producto(id, nombre, costo_unitario, precio_venta, punto_pedido, demanda_estimada, tiempo_reposicion, capacidad_maxima) ==
    IF FLe(precio_venta, costo_unitario)
    THEN ValueError("El precio de venta debe ser mayor al costo unitario")
    ELSE IF punto_pedido < 0
    THEN ValueError("El punto de pedido no puede ser negativo")
    ELSE [id |-> id, nombre |-> nombre, nivel_inventario |-> 0,
          costo_unitario |-> costo_unitario, precio_venta |-> precio_venta,
          punto_pedido |-> punto_pedido,
          demanda_estimada |-> demanda_estimada,
          tiempo_reposicion |-> tiempo_reposicion,
          capacidad_maxima |-> capacidad_maxima, lotes |-> <<>>]

\* Proveedor(...): the dataclass and its __post_init__, which refuses a
\* reliability outside [0, 1], a lead time below 1 and a negative base cost
Proveedor(id, nombre, productos_ofrecidos, tiempo_entrega, costo_base, fiabilidad, descuento_volumen, minimo_pedido) ==
    IF FLt(fiabilidad, FZero) \/ FLt(FInt(1), fiabilidad)
    THEN ValueError("La fiabilidad debe estar entre 0 y 1")
    ELSE IF tiempo_entrega < 1
    THEN ValueError("El tiempo de entrega debe ser al menos 1 dia")
    ELSE IF FLt(costo_base, FZero)
    THEN ValueError("El costo base no puede ser negativo")
    ELSE [id |-> id, nombre |-> nombre,
          productos_ofrecidos |-> productos_ofrecidos,
          tiempo_entrega |-> tiempo_entrega, costo_base |-> costo_base,
          fiabilidad |-> fiabilidad, descuento_volumen |-> descuento_volumen,
          minimo_pedido |-> minimo_pedido]

\* Cliente(...): the dataclass and its __post_init__, which refuses a
\* priority outside 1..5, a spread outside [0, 1], a buying period below 1
\* and a mean quantity below 1
Cliente(id, nombre, tipo, productos_solicitados, frecuencia_compra, cantidad_promedio, prioridad, variabilidad) ==
    IF prioridad < 1 \/ prioridad > 5
    THEN ValueError("La prioridad debe estar entre 1 y 5")
    ELSE IF FLt(variabilidad, FZero) \/ FLt(FInt(1), variabilidad)
    THEN ValueError("La variabilidad debe estar entre 0 y 1")
    ELSE IF frecuencia_compra < 1
    THEN ValueError("La frecuencia de compra debe ser al menos 1 dia")
    ELSE IF cantidad_promedio < 1
    THEN ValueError("La cantidad promedio debe ser al menos 1")
    ELSE [id |-> id, nombre |-> nombre, tipo |-> tipo,
          productos_solicitados |-> productos_solicitados,
          frecuencia_compra |-> frecuencia_compra,
          cantidad_promedio |-> cantidad_promedio, prioridad |-> prioridad,
          variabilidad |-> variabilidad, activo |-> TRUE,
          total_compras |-> 0, total_gastado |-> FZero,
          pedidos_realizados |-> 0, desabastecimientos_sufridos |-> 0]

\* a bolt bought at 0.7 and sold at 1.2, reordered at 3 units
Tornillo(capacidad_maxima) ==
    Producto("PROD001", "Tornillo M6", FLit(7, 10), FLit(6, 5), 3, FInt(2),
             2, capacidad_maxima)

\* the bolt with room for 8 units and an opening lot of 5
ProductosIniciales == <<agregar_lote(Tornillo(8), 5, FLit(7, 10), 0).prod>>

\* p with an opening lot of n units at its unit cost, if any
ConExistencias(p, n) ==
    IF n > 0 THEN agregar_lote(p, n, p.costo_unitario, 0).prod ELSE p

\* a punctual supplier with a volume discount and a minimum order of 3, and
\* a faster, less reliable one that takes any order
ProveedoresIniciales ==
    <<Proveedor("PROV001", "Suministros ABC", {"PROD001"}, 2, FLit(1, 2),
                FInt(1), [x \in {"PROD001"} |-> <<5, FLit(1, 10)>>], 3),
      Proveedor("PROV002", "Express", {"PROD001"}, 1, FLit(1, 2),
                FLit(9, 10), <<>>, 1)>>

\* a shop that buys 2 units every day and a second customer that buys
\* every third day, both of a demand without spread
ClientesIniciales ==
    <<Cliente("CLI001", "Ferreteria XYZ", "MINORISTA", <<"PROD001">>,
              1, 2, 3, FZero),
      Cliente("CLI002", "Distribuidora Sur", "MINORISTA", <<"PROD001">>,
              3, 1, 5, FZero)>>

\* the largest average quantity of the second customer
MaxPromedio == 1

\* the customers a simulator is given: the second one a shop or a
\* wholesaler, of any average quantity up to MaxPromedio
ClientesPosibles ==
    {[ClientesIniciales EXCEPT ![2] =
         Cliente(@.id, @.nombre, tipo, @.productos_solicitados,
                 @.frecuencia_compra, cantidad_promedio, @.prioridad,
                 @.variabilidad)] :
        tipo \in {"MINORISTA", "MAYORISTA"},
        cantidad_promedio \in 1..MaxPromedio}

\* SimuladorInventario(saldo_inicial=12.0)
SaldoInicial == FInt(12)

\* the longest run checked
MaxDia == 14

\* the state after the constructor and the registration of the entities
InitSimuladorCon(metodo, politica, prods, provs) ==
    /\ metodo_inventario = metodo
    /\ dia_simulacion = 0
    /\ productos = prods
    /\ proveedores = provs
    /\ clientes \in ClientesPosibles
    /\ gestor = GestorPedidos(politica)
    /\ finanzas = Finanzas(SaldoInicial)
    /\ pedidos_pendientes = <<>>
    /\ eventos_log = <<>>
    /\ desabastecimientos = 0
    /\ ventas_totales = 0
    /\ unidades_vendidas = 0
    /\ pc = "listo"
    /\ cursor = 1
    /\ error = FALSE
    /\ ultimo = [op |-> "init"]

\* the same, with the two suppliers
InitSimulador(metodo, politica, prods) ==
    InitSimuladorCon(metodo, politica, prods, ProveedoresIniciales)

\* simular_dias(n): the call under way
Corrida(n, dia) == [n |-> n, dia_inicio |-> dia, restantes |-> n]

\* the most adjustments of a run
MaxAjustes == 1

\* simular_dias(n) in a session in which the configuration panel may be
\* applied: ajustes counts the adjustments made
CorridaAjustable(n, dia) ==
    [n |-> n, dia_inicio |-> dia, restantes |-> n, ajustes |-> 0]

\* an adjustment is made between two days, while any is left
Ajustable ==
    /\ pc = "listo" /\ ~error
    /\ corrida.ajustes < MaxAjustes
    /\ corrida' = [corrida EXCEPT !.ajustes = @ + 1]

\* the configurations the panel applies
Configuraciones ==
    {<<PEPS, CONSERVADORA>>, <<UEPS, AGRESIVA>>, <<PROMEDIO, ADAPTATIVA>>}

\* InterfazPrincipal._inicializar_desde_panel(metodo, politica)
InicializarDesdePanel ==
    /\ Ajustable
    /\ \E conf \in Configuraciones :
          /\ metodo_inventario' = conf[1]
          /\ gestor' = [gestor EXCEPT !.politica = conf[2]]
          /\ ultimo' = [op |-> "inicializar_desde_panel", metodo |-> conf[1],
                        politica |-> conf[2], antes |-> Antes]
    /\ UNCHANGED <<dia_simulacion, productos, proveedores, clientes,
                   finanzas, pedidos_pendientes, eventos_log,
                   desabastecimientos, ventas_totales, unidades_vendidas,
                   pc, cursor, error>>

\* one run simular_dias(MaxDia), built under any costing method and any
\* strategy, during which the panel may reassign both between two days
Init ==
    /\ \E metodo \in MetodoInventario, politica \in PoliticaReposicion :
          InitSimulador(metodo, politica, ProductosIniciales)
    /\ corrida = CorridaAjustable(MaxDia, 0)

\* avanzar_dia, phase by phase
Next ==
    \/ AvanzarDia
    \/ ProcesarDemanda
    \/ EvaluarInventario
    \/ ProcesarEntrega
    \/ RegistrarCostosAlmacenamiento
    \/ EvaluarSistema

NextConfigurable ==
    \/ Next
    \/ InicializarDesdePanel

Spec == Init /\ [][NextConfigurable]_vars

\* the longest run simular_dias(n) checked to its end
MaxDiaCorrida == 8

\* the opening stocks of a run checked to its end
ExistenciasPosibles == {2, 5}

\* the suppliers of a run checked to its end: the two, or the first alone
ProveedoresPosibles == {ProveedoresIniciales, <<ProveedoresIniciales[1]>>}

\* one run simular_dias(n) for any n, under any costing method and any
\* strategy, with any of the opening stocks, of the suppliers and of the
\* customers, which the scheduler keeps going
InitCorrida ==
    /\ \E metodo \in MetodoInventario, politica \in PoliticaReposicion,
          existencias \in ExistenciasPosibles, provs \in ProveedoresPosibles :
          InitSimuladorCon(metodo, politica,
                           <<ConExistencias(Tornillo(8), existencias)>>, provs)
    /\ \E n \in 0..MaxDiaCorrida : corrida = Corrida(n, 0)

SpecCorrida == InitCorrida /\ [][Next]_vars /\ WF_vars(Next)

(***************************************************************************)
(* Runs with resets and queries: avanzar_dia called day after day, with    *)
(* reiniciar and obtener_eventos_recientes called between any two days,   *)
(* any number of times.                                                    *)
(***************************************************************************)
\* the most events asked for
MaxConsulta == 3

\* simulador.obtener_eventos_recientes(cantidad)
ObtenerEventosRecientes ==
    /\ pc = "listo" /\ ~error
    /\ \E cantidad \in 0..MaxConsulta :
          ultimo' = [op |-> "obtener_eventos_recientes",
                     cantidad |-> cantidad,
                     resultado |-> obtener_eventos_recientes(eventos_log,
                                                             cantidad),
                     antes |-> Antes]
    /\ UNCHANGED <<metodo_inventario, dia_simulacion, productos, proveedores,
                   clientes, gestor, finanzas, pedidos_pendientes,
                   eventos_log, desabastecimientos, ventas_totales,
                   unidades_vendidas, pc, cursor, corrida, error>>

\* simulador.exportar_eventos()
ExportarEventos ==
    /\ pc = "listo" /\ ~error
    /\ ultimo' = [op |-> "exportar_eventos",
                  resultado |-> exportar_eventos(eventos_log),
                  antes |-> Antes]
    /\ UNCHANGED <<metodo_inventario, dia_simulacion, productos, proveedores,
                   clientes, gestor, finanzas, pedidos_pendientes,
                   eventos_log, desabastecimientos, ventas_totales,
                   unidades_vendidas, pc, cursor, corrida, error>>

\* the days simulated in a run with resets
MaxDiaReinicio == 8

\* the caller keeps the strategy it built the policy engine with
InitReinicio ==
    \E metodo \in MetodoInventario, politica \in PoliticaReposicion :
       /\ InitSimulador(metodo, politica, ProductosIniciales)
       /\ corrida = [n |-> MaxDiaReinicio, dia_inicio |-> 0,
                     restantes |-> MaxDiaReinicio, politica |-> politica]

NextReinicio ==
    \/ Next
    \/ Reiniciar
    \/ ObtenerEventosRecientes
    \/ ExportarEventos

SpecReinicio == InitReinicio /\ [][NextReinicio]_vars

(***************************************************************************)
(* A warehouse of three products: the bolt, which the suppliers deliver,   *)
(* and a nut and a washer nobody orders or supplies, each opening with any *)
(* stock up to MaxExistencias; the days run as in Spec.                    *)
(***************************************************************************)
\* the largest opening stock of a product of the warehouse
MaxExistencias == 2

\* the days the warehouse runs
MaxDiaAlmacen == 7

ProductosDelAlmacen(n1, n2, n3) ==
    <<ConExistencias(Tornillo(8), n1),
      ConExistencias(Producto("PROD002", "Tuerca M6", FLit(3, 10),
                              FLit(1, 2), 0, FInt(1), 2, 8), n2),
      ConExistencias(Producto("PROD003", "Arandela", FLit(1, 5),
                              FLit(2, 5), 0, FInt(1), 2, 8), n3)>>

InitAlmacen ==
    /\ \E n1 \in 0..MaxExistencias, n2 \in 0..MaxExistencias,
          n3 \in 0..MaxExistencias :
          InitSimulador(PEPS, CONSERVADORA, ProductosDelAlmacen(n1, n2, n3))
    /\ corrida = Corrida(MaxDiaAlmacen, 0)

SpecAlmacen == InitAlmacen /\ [][Next]_vars

(***************************************************************************)
(* Two weeks of shortage: the bolt opens with the 2 units of the first     *)
(* sale, so that the stockouts start on the second day.                    *)
(***************************************************************************)
InitEscasez ==
    /\ \E metodo \in MetodoInventario, politica \in PoliticaReposicion :
          InitSimulador(metodo, politica, ProductosDelAlmacen(2, 0, 0))
    /\ corrida = Corrida(MaxDia, 0)

SpecEscasez == InitEscasez /\ [][Next]_vars

(***************************************************************************)
(* Runs built at any reading of the wall clock, with snapshots taken       *)
(* between any two days.  corrida.reloj is the reading of datetime.now()   *)
(* in the constructor.                                                     *)
(***************************************************************************)
\* the readings of the wall clock at construction, in days
LecturasDeReloj == {0, 1}

InitReloj ==
    \E metodo \in MetodoInventario, politica \in PoliticaReposicion,
       reloj \in LecturasDeReloj :
       /\ InitSimulador(metodo, politica, ProductosIniciales)
       /\ corrida = [n |-> MaxDiaReinicio, dia_inicio |-> 0,
                     restantes |-> MaxDiaReinicio, reloj |-> reloj]

\* simulador.obtener_estado()
ObtenerEstado ==
    /\ pc = "listo" /\ ~error
    /\ ultimo' = [op |-> "obtener_estado",
                  resultado |-> obtener_estado(Antes, dia_simulacion,
                                               corrida.reloj),
                  antes |-> Antes]
    /\ UNCHANGED <<metodo_inventario, dia_simulacion, productos, proveedores,
                   clientes, gestor, finanzas, pedidos_pendientes,
                   eventos_log, desabastecimientos, ventas_totales,
                   unidades_vendidas, pc, cursor, corrida, error>>

NextReloj ==
    \/ Next
    \/ ObtenerEstado

SpecReloj == InitReloj /\ [][NextReloj]_vars

(***************************************************************************)
(* The 15-day scenario: a product reordered at 50 with room for 500 and an *)
(* opening lot of 100 at 0.5, a shop that buys 60 units every third day,   *)
(* the conservative strategy, any costing method, and one supplier that is *)
(* never late (fiabilidad 1.0, so that simular_retraso can only give 0)    *)
(* and delivers in the 3 days the product is replenished in, or in any     *)
(* more up to MaxEntrega.                                                  *)
(***************************************************************************)
DiasDelEscenario == 15

\* the longest lead time of the supplier of the scenario
MaxEntrega == 4

ProductosDelEscenario ==
    <<agregar_lote(Producto("PROD001", "Tornillo M6", FLit(1, 2), FLit(6, 5),
                            50, FInt(10), 3, 500),
                   100, FLit(1, 2), 0).prod>>

ProveedoresDelEscenario(tiempo_entrega) ==
    <<Proveedor("PROV001", "Suministros ABC", {"PROD001"}, tiempo_entrega,
                FLit(1, 2), FInt(1), <<>>, 10)>>

ClientesDelEscenario ==
    <<Cliente("CLI001", "Ferreteria XYZ", "MINORISTA", <<"PROD001">>,
              3, 60, 3, FZero)>>

InitEscenario ==
    \E metodo \in MetodoInventario, tiempo_entrega \in 3..MaxEntrega :
       /\ metodo_inventario = metodo
       /\ dia_simulacion = 0
       /\ productos = ProductosDelEscenario
       /\ proveedores = ProveedoresDelEscenario(tiempo_entrega)
       /\ clientes = ClientesDelEscenario
       /\ gestor = GestorPedidos(CONSERVADORA)
       /\ finanzas = Finanzas(FInt(50000))
       /\ pedidos_pendientes = <<>>
       /\ eventos_log = <<>>
       /\ desabastecimientos = 0
       /\ ventas_totales = 0
       /\ unidades_vendidas = 0
       /\ pc = "listo"
       /\ cursor = 1
       /\ error = FALSE
       /\ ultimo = [op |-> "init"]
       /\ corrida = Corrida(DiasDelEscenario, 0)

SpecEscenario == InitEscenario /\ [][Next]_vars

(***************************************************************************)
(* The registration of the entities: agregar_producto called on a          *)
(* simulator without products, any number of times, with new and with      *)
(* known ids, and agregar_proveedor and agregar_cliente called on it until *)
(* it holds MaxProveedores suppliers and MaxClientes customers.            *)
(***************************************************************************)
\* the objects of a set of constructions that were built
Construidos(objetos) == {x \in objetos : ~Rechazado(x)}

\* the products a caller registers: three ids, each with room for 3 or for
\* 8 units; the constructor refuses those priced at their cost
ProductosPorRegistrar ==
    Construidos(
        {Producto(id, "Tornillo M6", FLit(7, 10), precio_venta, 3, FInt(2), 2,
                  capacidad_maxima) :
            id \in {"PROD001", "PROD002", "PROD003"},
            precio_venta \in {FLit(6, 5), FLit(7, 10)},
            capacidad_maxima \in {3, 8}})

InitRegistro ==
    /\ InitSimulador(PEPS, CONSERVADORA, <<>>)
    /\ corrida = Corrida(0, 0)

ProductoAgregado(producto, r) ==
    /\ productos' = r.productos
    /\ ultimo' = [op |-> "agregar_producto", producto |-> producto,
                  exito |-> r.exito, antes |-> Antes]

\* simulador.agregar_producto(producto)
AgregarProducto ==
    /\ \E producto \in ProductosPorRegistrar :
          ProductoAgregado(producto, agregar_producto(productos, producto))
    /\ UNCHANGED <<metodo_inventario, dia_simulacion, proveedores, clientes,
                   gestor, finanzas, pedidos_pendientes, eventos_log,
                   desabastecimientos, ventas_totales, unidades_vendidas,
                   pc, cursor, corrida, error>>

\* the most suppliers and the most customers registered
MaxProveedores == 3

MaxClientes == 3

\* the suppliers a caller registers: a new one, and one of a known id
\* (the constructor refuses a lead time of 0 days)
ProveedoresPorRegistrar ==
    Construidos(
        {Proveedor("PROV003", "Ferretera Norte", {"PROD001"}, tiempo_entrega,
                   FLit(1, 2), FInt(1), <<>>, 1) : tiempo_entrega \in {0, 1}})
    \cup {ProveedoresIniciales[2]}

\* the customers a caller registers: a new one, who asks for a product
\* nobody sells, and one of a known id
\* (the constructor refuses a priority of 6)
ClientesPorRegistrar ==
    Construidos(
        {Cliente("CLI003", "Taller Sur", "EXTERNO", <<"PROD009", "PROD001">>,
                 2, 1, prioridad, FZero) : prioridad \in {1, 6}})
    \cup {ClientesIniciales[1]}

\* simulador.agregar_proveedor(proveedor)
AgregarProveedor ==
    /\ pc = "listo" /\ ~error
    /\ Len(proveedores) < MaxProveedores
    /\ \E proveedor \in ProveedoresPorRegistrar :
          /\ proveedores' = Append(proveedores, proveedor)
          /\ ultimo' = [op |-> "agregar_proveedor", proveedor |-> proveedor,
                        proveedores_antes |-> proveedores, antes |-> Antes]
    /\ UNCHANGED <<metodo_inventario, dia_simulacion, productos, clientes,
                   gestor, finanzas, pedidos_pendientes, eventos_log,
                   desabastecimientos, ventas_totales, unidades_vendidas,
                   pc, cursor, corrida, error>>

\* simulador.agregar_cliente(cliente)
AgregarCliente ==
    /\ pc = "listo" /\ ~error
    /\ Len(clientes) < MaxClientes
    /\ \E cliente \in ClientesPorRegistrar :
          /\ clientes' = Append(clientes, cliente)
          /\ ultimo' = [op |-> "agregar_cliente", cliente |-> cliente,
                        antes |-> Antes]
    /\ UNCHANGED <<metodo_inventario, dia_simulacion, productos, proveedores,
                   gestor, finanzas, pedidos_pendientes, eventos_log,
                   desabastecimientos, ventas_totales, unidades_vendidas,
                   pc, cursor, corrida, error>>

NextRegistro ==
    \/ AgregarProducto
    \/ AgregarProveedor
    \/ AgregarCliente

SpecRegistro == InitRegistro /\ [][NextRegistro]_vars

(***************************************************************************)
(* Runs shorter than a review period (MaxDiaAjustes < 7, so that           *)
(* _evaluar_sistema is never called), adjusted between two days: the       *)
(* configuration panel assigns the costing method and the strategy, or     *)
(* the reorder point and the estimated demand of a product                 *)
(* (gui/interfaz_principal.py), a customer is switched off or on, a        *)
(* supplier is given a volume discount.                                    *)
(* corrida.ajustes counts the adjustments made, at most MaxAjustes.        *)
(***************************************************************************)
\* the days of an adjusted run
MaxDiaAjustes == 3

InitAjustes ==
    /\ InitSimulador(PEPS, CONSERVADORA, ProductosIniciales)
    /\ corrida = CorridaAjustable(MaxDiaAjustes, 0)

\* the product configurations the panel applies: the product, its reorder
\* point and its estimated demand
ConfiguracionesDeProducto ==
    {<<"PROD001", 0, FInt(2)>>, <<"PROD001", 6, FInt(3)>>,
     <<"PROD009", 6, FInt(3)>>}

\* the products once the panel has configured one of them, if registered
producto_configurado(prods, producto_id, punto_pedido, demanda) ==
    [i \in DOMAIN prods |->
        IF prods[i].id = producto_id
        THEN [prods[i] EXCEPT !.punto_pedido = punto_pedido,
                              !.demanda_estimada = demanda]
        ELSE prods[i]]

\* InterfazPrincipal._aplicar_configuracion_producto(producto_id,
\* punto_pedido, demanda)
AplicarConfiguracionProducto ==
    /\ Ajustable
    /\ \E conf \in ConfiguracionesDeProducto :
          /\ productos' = producto_configurado(productos, conf[1], conf[2],
                                               conf[3])
          /\ ultimo' = [op |-> "aplicar_configuracion_producto",
                        producto_id |-> conf[1], punto_pedido |-> conf[2],
                        demanda |-> conf[3], antes |-> Antes]
    /\ UNCHANGED <<metodo_inventario, dia_simulacion, proveedores, clientes,
                   gestor, finanzas, pedidos_pendientes, eventos_log,
                   desabastecimientos, ventas_totales, unidades_vendidas,
                   pc, cursor, error>>

\* cliente.cambiar_estado(activo), for any customer
CambiarEstado ==
    /\ Ajustable
    /\ \E i \in DOMAIN clientes, activo \in BOOLEAN :
          /\ clientes' = [clientes EXCEPT ![i] = cambiar_estado(@, activo)]
          /\ ultimo' = [op |-> "cambiar_estado", cliente |-> i,
                        activo |-> activo, antes |-> Antes]
    /\ UNCHANGED <<metodo_inventario, dia_simulacion, productos, proveedores,
                   gestor, finanzas, pedidos_pendientes, eventos_log,
                   desabastecimientos, ventas_totales, unidades_vendidas,
                   pc, cursor, error>>

\* the discounts given: 20% from 2 units of the bolt on, and three the
\* supplier refuses (a product it does not offer, a minimum of 0 units, a
\* discount of 150%)
DescuentosPorAgregar ==
    {<<"PROD001", 2, FLit(1, 5)>>, <<"PROD009", 2, FLit(1, 5)>>,
     <<"PROD001", 0, FLit(1, 5)>>, <<"PROD001", 2, FLit(3, 2)>>}

DescuentoAgregado(i, descuento, r) ==
    /\ proveedores' = [proveedores EXCEPT ![i] = r.prov]
    /\ ultimo' = [op |-> "agregar_descuento_volumen", proveedor |-> i,
                  descuento |-> descuento, raised |-> r.raised,
                  proveedores_antes |-> proveedores, antes |-> Antes]

\* proveedor.agregar_descuento_volumen(producto_id, cantidad_minima,
\* porcentaje_descuento), for any supplier
AgregarDescuentoVolumen ==
    /\ Ajustable
    /\ \E i \in DOMAIN proveedores, descuento \in DescuentosPorAgregar :
          DescuentoAgregado(i, descuento,
              agregar_descuento_volumen(proveedores[i], descuento[1],
                                        descuento[2], descuento[3]))
    /\ UNCHANGED <<metodo_inventario, dia_simulacion, productos, clientes,
                   gestor, finanzas, pedidos_pendientes, eventos_log,
                   desabastecimientos, ventas_totales, unidades_vendidas,
                   pc, cursor, error>>

NextAjustes ==
    \/ AvanzarDia
    \/ ProcesarDemanda
    \/ EvaluarInventario
    \/ ProcesarEntrega
    \/ RegistrarCostosAlmacenamiento
    \/ InicializarDesdePanel
    \/ AplicarConfiguracionProducto
    \/ CambiarEstado
    \/ AgregarDescuentoVolumen

SpecAjustes == InitAjustes /\ [][NextAjustes]_vars

(***************************************************************************)
(* The lot ledger of one product under direct calls: any sequence of       *)
(* agregar_lote and retirar_unidades, with any quantity, cost, receipt     *)
(* day and costing method.                                                 *)
(***************************************************************************)
\* the largest quantity of a call
MaxCantidad == 3

\* the latest receipt day of a lot
MaxFecha == 1

\* the unit cost of a lot received on a day: 0.7 on even days, 2.5 on odd
CostoDelDia(fecha) == IF fecha % 2 = 0 THEN FLit(7, 10) ELSE FLit(5, 2)

\* the bolt with room for 3 units and no stock
InitProducto ==
    /\ InitSimulador(PEPS, CONSERVADORA, <<Tornillo(3)>>)
    /\ corrida = Corrida(0, 0)

LoteAgregado(cantidad, costo, fecha, r) ==
    /\ productos' = [productos EXCEPT ![1] = r.prod]
    /\ ultimo' = [op |-> "agregar_lote", cantidad |-> cantidad,
                  costo |-> costo, fecha |-> fecha, exito |-> r.exito,
                  raised |-> r.raised, antes |-> Antes]

\* producto.agregar_lote(cantidad, costo, fecha)
AgregarLote ==
    /\ \E cantidad \in 0..MaxCantidad, fecha \in 0..MaxFecha :
          LoteAgregado(cantidad, CostoDelDia(fecha), fecha,
                       agregar_lote(productos[1], cantidad,
                                    CostoDelDia(fecha), fecha))
    /\ UNCHANGED <<metodo_inventario, dia_simulacion, proveedores, clientes,
                   gestor, finanzas, pedidos_pendientes, eventos_log,
                   desabastecimientos, ventas_totales, unidades_vendidas,
                   pc, cursor, corrida, error>>

UnidadesRetiradas(cantidad, metodo, r) ==
    /\ productos' = [productos EXCEPT ![1] = r.prod]
    /\ ultimo' = [op |-> "retirar_unidades", cantidad |-> cantidad,
                  metodo |-> metodo, costo |-> r.costo, exito |-> r.exito,
                  raised |-> r.raised, antes |-> Antes]

\* producto.retirar_unidades(cantidad, metodo)
RetirarUnidades ==
    /\ \E cantidad \in 0..MaxCantidad, metodo \in MetodoInventario :
          UnidadesRetiradas(cantidad, metodo,
                            retirar_unidades(productos[1], cantidad, metodo))
    /\ UNCHANGED <<metodo_inventario, dia_simulacion, proveedores, clientes,
                   gestor, finanzas, pedidos_pendientes, eventos_log,
                   desabastecimientos, ventas_totales, unidades_vendidas,
                   pc, cursor, corrida, error>>

NextProducto == AgregarLote \/ RetirarUnidades

SpecProducto == InitProducto /\ [][NextProducto]_vars

(***************************************************************************)
(* The financial ledger on its own: registrar_ingreso, registrar_egreso    *)
(* and reiniciar called in any order with any of a few amounts.            *)
(***************************************************************************)
\* the most transactions recorded
MaxTransacciones == 3

\* the amounts recorded: -1.0 (refused), 0.1, 0.2 and 1.5
Montos == {FNeg(FInt(1)), FLit(1, 10), FLit(1, 5), FLit(3, 2)}

InitFinanzas ==
    /\ InitSimulador(PEPS, CONSERVADORA, ProductosIniciales)
    /\ corrida = Corrida(0, 0)

MovimientoRegistrado(op, monto, r) ==
    /\ finanzas' = r.fin
    /\ ultimo' = [op |-> op, monto |-> monto, raised |-> r.raised,
                  antes |-> Antes]

\* finanzas.registrar_ingreso(monto, concepto, fecha)
RegistrarIngreso ==
    /\ Len(finanzas.transacciones) < MaxTransacciones
    /\ \E monto \in Montos :
          MovimientoRegistrado("registrar_ingreso", monto,
              registrar_ingreso(finanzas, monto, "Ingreso", dia_simulacion,
                                "VENTA"))
    /\ UNCHANGED <<metodo_inventario, dia_simulacion, productos, proveedores,
                   clientes, gestor, pedidos_pendientes, eventos_log,
                   desabastecimientos, ventas_totales, unidades_vendidas,
                   pc, cursor, corrida, error>>

\* finanzas.registrar_egreso(monto, concepto, fecha, categoria)
RegistrarEgreso ==
    /\ Len(finanzas.transacciones) < MaxTransacciones
    /\ \E monto \in Montos,
          categoria \in {"COMPRA", "ALMACENAMIENTO", "PENALIZACION"} :
          MovimientoRegistrado("registrar_egreso", monto,
              registrar_egreso(finanzas, monto, "Egreso", dia_simulacion,
                               categoria))
    /\ UNCHANGED <<metodo_inventario, dia_simulacion, productos, proveedores,
                   clientes, gestor, pedidos_pendientes, eventos_log,
                   desabastecimientos, ventas_totales, unidades_vendidas,
                   pc, cursor, corrida, error>>

\* the opening balances a reset is given: none, -1.0 (refused), 0.0 and
\* 20.0
SaldosNuevos == {NoSaldo, FNeg(FInt(1)), FZero, FInt(20)}

\* finanzas.reiniciar(nuevo_saldo_inicial)
ReiniciarFinanzas ==
    /\ \E nuevo_saldo_inicial \in SaldosNuevos :
          /\ finanzas' = finanzas_reiniciar(finanzas,
                                            nuevo_saldo_inicial).fin
          /\ ultimo' = [op |-> "finanzas_reiniciar",
                        nuevo_saldo_inicial |-> nuevo_saldo_inicial,
                        raised |-> finanzas_reiniciar(finanzas,
                                       nuevo_saldo_inicial).raised,
                        antes |-> Antes]
    /\ UNCHANGED <<metodo_inventario, dia_simulacion, productos, proveedores,
                   clientes, gestor, pedidos_pendientes, eventos_log,
                   desabastecimientos, ventas_totales, unidades_vendidas,
                   pc, cursor, corrida, error>>

NextFinanzas == RegistrarIngreso \/ RegistrarEgreso \/ ReiniciarFinanzas

SpecFinanzas == InitFinanzas /\ [][NextFinanzas]_vars

(***************************************************************************)
(* The policy engine on its own: evaluar_desempeno called on any later day *)
(* with any of a few metrics.                                              *)
(***************************************************************************)
\* the last day of a review
MaxDiaGestor == 15

\* the most days between two reviews
MaxSalto == 3

\* the metrics of a review: no or 6 stockouts, a loss of 5.0 or a profit of
\* 3.0, on the opening balance of the scenario
MetricasDeRevision ==
    {[utilidad_neta |-> u, desabastecimientos |-> d,
      inventario_promedio |-> FInt(5), saldo_inicial |-> SaldoInicial] :
        u \in {FNeg(FInt(5)), FInt(3)}, d \in {0, 6}}

InitGestor ==
    /\ \E politica \in PoliticaReposicion :
          InitSimulador(PEPS, politica, ProductosIniciales)
    /\ corrida = Corrida(0, 0)

\* the days on which the strategy changed so far
CambiosPrevios ==
    IF "cambios" \in DOMAIN ultimo THEN ultimo.cambios ELSE <<>>

DesempenoEvaluado(dia, metricas, g) ==
    /\ dia_simulacion' = dia
    /\ gestor' = g
    /\ ultimo' = [op |-> "evaluar_desempeno", dia |-> dia,
                  metricas |-> metricas, antes |-> Antes,
                  cambios |-> IF g.politica # gestor.politica
                              THEN Append(CambiosPrevios, dia)
                              ELSE CambiosPrevios]

\* gestor.evaluar_desempeno(metricas, dia_actual), the metrics drawn from
\* posibles and the day no later than hasta
EvaluarCon(posibles, hasta) ==
    /\ \E salto \in 1..MaxSalto, metricas \in posibles :
          /\ dia_simulacion + salto <= hasta
          /\ DesempenoEvaluado(dia_simulacion + salto, metricas,
                 evaluar_desempeno(gestor, metricas, dia_simulacion + salto))
    /\ UNCHANGED <<metodo_inventario, productos, proveedores, clientes,
                   finanzas, pedidos_pendientes, eventos_log,
                   desabastecimientos, ventas_totales, unidades_vendidas,
                   pc, cursor, corrida, error>>

\* gestor.evaluar_desempeno(metricas, dia_actual)
EvaluarDesempeno == EvaluarCon(MetricasDeRevision, MaxDiaGestor)

NextGestor == EvaluarDesempeno

SpecGestor == InitGestor /\ [][NextGestor]_vars

(***************************************************************************)
(* The review at its thresholds: the stockout counts on either side of 2,  *)
(* 3 and 5, and a loss between 20% and 30% of the opening balance beside   *)
(* the larger loss and the profit.                                         *)
(***************************************************************************)
MetricasDeUmbral ==
    {[utilidad_neta |-> u, desabastecimientos |-> d,
      inventario_promedio |-> FInt(5), saldo_inicial |-> SaldoInicial] :
        u \in {FNeg(FInt(5)), FNeg(FInt(3)), FInt(3)}, d \in {0, 1, 4, 6}}

\* the last day of a review at the thresholds
MaxDiaRevision == 9

EvaluarUmbrales == EvaluarCon(MetricasDeUmbral, MaxDiaRevision)

SpecRevision == InitGestor /\ [][EvaluarUmbrales]_vars

(***************************************************************************)
(* Weeks under the Adaptive strategy: whole runs of the engine, day by day *)
(* as in Spec, long enough for the reviews of the seventh days to take the *)
(* sensitivity to either end of its range.                                 *)
(***************************************************************************)
\* the weeks of a run under the Adaptive strategy
MaxSemanas == 6

\* the capacity of a warehouse that opens full
MaxLleno == 20

\* runs of MaxSemanas weeks under the Adaptive strategy and any costing
\* method: the bolt with the opening stocks of a run checked to its end,
\* which run short in the first week, or a warehouse of MaxLleno units
\* that opens full
InitAdaptativa ==
    /\ \E metodo \in MetodoInventario,
          prods \in {<<ConExistencias(Tornillo(8), existencias)>> :
                        existencias \in ExistenciasPosibles}
                    \cup {<<ConExistencias(Tornillo(MaxLleno), MaxLleno)>>} :
          InitSimulador(metodo, ADAPTATIVA, prods)
    /\ corrida = Corrida(7 * MaxSemanas, 0)

SpecAdaptativa == InitAdaptativa /\ [][Next]_vars

(***************************************************************************)
(* The policy engine asked for orders between its reviews: evaluar_pedido  *)
(* called on the product of the scenario on any day, with the sensitivity  *)
(* the reviews have left.                                                  *)
(***************************************************************************)
\* the most decisions taken
MaxPedidos == 2

PedidoEvaluado(producto_id, r) ==
    /\ gestor' = r.gestor
    /\ ultimo' = [op |-> "evaluar_pedido", producto_id |-> producto_id,
                  decision |-> r.decision, antes |-> Antes,
                  cambios |-> CambiosPrevios]

\* gestor.evaluar_pedido(producto, proveedores, dia_actual)
EvaluarPedido ==
    /\ gestor.pedidos_generados < MaxPedidos
    /\ \E i \in DOMAIN productos :
          PedidoEvaluado(productos[i].id,
              evaluar_pedido(gestor, productos[i], proveedores,
                             dia_simulacion))
    /\ UNCHANGED <<metodo_inventario, dia_simulacion, productos, proveedores,
                   clientes, finanzas, pedidos_pendientes, eventos_log,
                   desabastecimientos, ventas_totales, unidades_vendidas,
                   pc, cursor, corrida, error>>

NextPedido ==
    \/ EvaluarDesempeno
    \/ EvaluarPedido

SpecPedido == InitGestor /\ [][NextPedido]_vars

(***************************************************************************)
(* The policy engine through reviews and resets of the engine: the review  *)
(* is all that a simulated day does to the sensitivity.                    *)
(***************************************************************************)
NextSensibilidad ==
    \/ EvaluarDesempeno
    \/ Reiniciar

SpecSensibilidad == InitGestor /\ [][NextSensibilidad]_vars

(***************************************************************************)
(* evaluar_pedido on any policy state and any stock.  The configuration    *)
(* panel assigns gestor.politica and the reorder point of a product at any *)
(* time (gui/interfaz_principal.py), whatever the sensitivity the reviews  *)
(* have left, so every strategy meets every sensitivity of the range.      *)
(* The suppliers are the two of the scenario in either order, or the first *)
(* alone, which takes no order under 3 units.                              *)
(***************************************************************************)
InitCantidad ==
    \E politica \in PoliticaReposicion,
       sensibilidad \in {FLit(1, 2), FInt(1), FLit(6, 5), FInt(2)},
       punto_pedido \in {3, 6}, nivel \in 0..8,
       provs \in {ProveedoresIniciales,
                  <<ProveedoresIniciales[2], ProveedoresIniciales[1]>>,
                  <<ProveedoresIniciales[1]>>} :
       /\ metodo_inventario = PEPS
       /\ dia_simulacion = 0
       /\ productos =
             <<IF nivel = 0
               THEN [Tornillo(8) EXCEPT !.punto_pedido = punto_pedido]
               ELSE agregar_lote(
                        [Tornillo(8) EXCEPT !.punto_pedido = punto_pedido],
                        nivel, FLit(7, 10), 0).prod>>
       /\ proveedores = provs
       /\ clientes = ClientesIniciales
       /\ gestor = [GestorPedidos(politica)
                       EXCEPT !.sensibilidad = sensibilidad]
       /\ finanzas = Finanzas(SaldoInicial)
       /\ pedidos_pendientes = <<>>
       /\ eventos_log = <<>>
       /\ desabastecimientos = 0
       /\ ventas_totales = 0
       /\ unidades_vendidas = 0
       /\ pc = "listo"
       /\ cursor = 1
       /\ error = FALSE
       /\ ultimo = [op |-> "init"]
       /\ corrida = Corrida(0, 0)

SpecCantidad == InitCantidad /\ [][EvaluarPedido]_vars

(***************************************************************************)
(* Properties of the lot ledger                                            *)
(***************************************************************************)
\* C1: lot conservation: after any sequence of agregar_lote and
\* retirar_unidades under any of the three costing methods, the quantities
\* of the lots of every product add up to its nivel_inventario
C1_ConservacionDeLotes ==
    \A i \in DOMAIN productos :
        SumaCantidades(productos[i].lotes) = productos[i].nivel_inventario

\* C2: financial conservation: after any sequence of registrar_ingreso and
\* registrar_egreso, saldo_actual is exactly saldo_inicial + ingresos_totales
\* - egresos_totales
C2_ConservacionFinanciera ==
    finanzas.saldo_actual
    = FSub(FAdd(finanzas.saldo_inicial, finanzas.ingresos_totales),
           finanzas.egresos_totales)

\* the delivery just processed did not fit in the room its product had
EntregaSinEspacio ==
    ultimo.antes.productos[IndiceProducto(ultimo.antes.productos,
        ultimo.entrega.producto_id)].nivel_inventario
    + ultimo.entrega.cantidad
    > ultimo.antes.productos[IndiceProducto(ultimo.antes.productos,
          ultimo.entrega.producto_id)].capacidad_maxima

\* C3: capacity: nivel_inventario never exceeds capacidad_maxima, and an
\* agregar_lote with nivel_inventario + cantidad > capacidad_maxima fails
\* and leaves the lots and nivel_inventario as they were, whether the call
\* is made directly or by the delivery of an order
C3_CapacidadRespetada ==
    /\ \A i \in DOMAIN productos :
          productos[i].nivel_inventario <= productos[i].capacidad_maxima
    /\ (/\ ultimo.op = "agregar_lote"
        /\ ultimo.antes.productos[1].nivel_inventario + ultimo.cantidad
             > ultimo.antes.productos[1].capacidad_maxima)
       => ~ultimo.exito /\ productos = ultimo.antes.productos
    /\ (ultimo.op = "procesar_entrega" /\ EntregaSinEspacio)
       => productos = ultimo.antes.productos

\* a lot refused for lack of room while the product holds stock
C3_LoteRechazado ==
    /\ ultimo.op = "agregar_lote"
    /\ ~ultimo.raised
    /\ ~ultimo.exito
    /\ ultimo.antes.productos[1].nivel_inventario + ultimo.cantidad
         > ultimo.antes.productos[1].capacidad_maxima
    /\ productos[1].nivel_inventario > 0

\* C4: a withdrawal is all or nothing: retirar_unidades(q, metodo) with
\* q > nivel_inventario reports failure with cost 0 and leaves the lots and
\* nivel_inventario as they were, and any other withdrawal succeeds and
\* takes the whole quantity q
C4_TodoONada ==
    (ultimo.op = "retirar_unidades" /\ ~ultimo.raised)
    => IF ultimo.cantidad > ultimo.antes.productos[1].nivel_inventario
       THEN /\ ~ultimo.exito
            /\ ultimo.costo = FZero
            /\ productos = ultimo.antes.productos
       ELSE /\ ultimo.exito
            /\ productos[1].nivel_inventario
                 = ultimo.antes.productos[1].nivel_inventario
                   - ultimo.cantidad

\* the units of the lots received on day d
RECURSIVE CantidadDeFecha(_, _)
CantidadDeFecha(lotes, d) ==
    IF lotes = <<>> THEN 0
    ELSE (IF Head(lotes).fecha_ingreso = d THEN Head(lotes).cantidad ELSE 0)
         + CantidadDeFecha(Tail(lotes), d)

FechasDe(lotes) == {lotes[i].fecha_ingreso : i \in DOMAIN lotes}

\* day e is consumed before day d: earlier under PEPS, later under UEPS
SeConsumeAntes(e, d, metodo) == IF metodo = PEPS THEN e < d ELSE e > d

\* the lots of a day were reduced only if nothing is left of the days
\* consumed before it
OrdenRespetado(pre, post, metodo) ==
    \A d \in FechasDe(pre) :
        CantidadDeFecha(post, d) < CantidadDeFecha(pre, d)
        => \A e \in FechasDe(pre) :
              SeConsumeAntes(e, d, metodo) => CantidadDeFecha(post, e) = 0

\* the lot consumed first: the oldest under PEPS, the newest under UEPS,
\* the first listed among those of the same day
PrimerLote(lotes, metodo) ==
    CHOOSE k \in DOMAIN lotes :
        \A j \in DOMAIN lotes :
            \/ SeConsumeAntes(lotes[k].fecha_ingreso, lotes[j].fecha_ingreso,
                              metodo)
            \/ lotes[k].fecha_ingreso = lotes[j].fecha_ingreso /\ k <= j

Veces(lotes, l) == Cardinality({i \in DOMAIN lotes : lotes[i] = l})

\* the same lots, whatever their order
MismosLotes(a, b) ==
    /\ Len(a) = Len(b)
    /\ \A i \in DOMAIN a : Veces(a, a[i]) = Veces(b, a[i])

\* a withdrawal smaller than lot k changes only lot k
SoloElLote(pre, post, q, k) ==
    q < pre[k].cantidad
    => MismosLotes(post, [pre EXCEPT ![k].cantidad = @ - q])

\* C5: a successful PEPS withdrawal reduces a lot only if every lot of a
\* strictly earlier day is fully consumed, a successful UEPS withdrawal only
\* if every lot of a strictly later day is; a withdrawal smaller than the
\* oldest (PEPS) or newest (UEPS) lot changes only that lot
C5_OrdenDeRetiro ==
    (/\ ultimo.op = "retirar_unidades"
     /\ ultimo.exito
     /\ ultimo.metodo \in {PEPS, UEPS}
     /\ ultimo.antes.productos[1].lotes # <<>>)
    => /\ OrdenRespetado(ultimo.antes.productos[1].lotes,
                         productos[1].lotes, ultimo.metodo)
       /\ SoloElLote(ultimo.antes.productos[1].lotes, productos[1].lotes,
                     ultimo.cantidad,
                     PrimerLote(ultimo.antes.productos[1].lotes,
                                ultimo.metodo))

\* a PEPS withdrawal smaller than the oldest lot, which is listed after a
\* newer one
C5_RetiroDelMasAntiguo ==
    /\ ultimo.op = "retirar_unidades"
    /\ ultimo.exito
    /\ ultimo.metodo = PEPS
    /\ Len(ultimo.antes.productos[1].lotes) = 2
    /\ ultimo.antes.productos[1].lotes[1].fecha_ingreso
         > ultimo.antes.productos[1].lotes[2].fecha_ingreso
    /\ ultimo.cantidad < ultimo.antes.productos[1].lotes[2].cantidad
    /\ Len(productos[1].lotes) = 2

(***************************************************************************)
(* Properties of the policy engine                                         *)
(***************************************************************************)
\* C6: cooldown: any two changes of strategy made by evaluar_desempeno are
\* at least 7 days apart, and no change is made when fewer than 7 days have
\* passed since ultimo_cambio_politica
C6_Enfriamiento ==
    ultimo.op = "evaluar_desempeno"
    => /\ \A i, j \in DOMAIN ultimo.cambios :
             i < j => ultimo.cambios[j] - ultimo.cambios[i] >= 7
       /\ ultimo.dia - ultimo.antes.gestor.ultimo_cambio_politica < 7
          => gestor.politica = ultimo.antes.gestor.politica

\* two changes of strategy exactly 7 days apart
C6_DosCambios ==
    /\ ultimo.op = "evaluar_desempeno"
    /\ Len(ultimo.cambios) = 2
    /\ ultimo.cambios[2] - ultimo.cambios[1] = 7
    /\ gestor.politica # ultimo.antes.gestor.politica

(***************************************************************************)
(* Properties of the simulated day                                         *)
(***************************************************************************)
\* the replenishment decision just taken costs more than the balance held
DecisionSinFondos ==
    /\ ultimo.op = "evaluar_inventario"
    /\ ultimo.decision.producto_id # NoDecision.producto_id
    /\ ~tiene_saldo_suficiente(ultimo.antes.finanzas,
                               ultimo.decision.costo_total)

\* the demand just settled asked for more than the product held
DemandaSinExistencias ==
    /\ ultimo.op = "atender_demanda"
    /\ ultimo.cantidad > 0
    /\ ultimo.cantidad
         > ultimo.antes.productos[IndiceProducto(ultimo.antes.productos,
               ultimo.producto_id)].nivel_inventario

\* the last step appended exactly one event, dated today
UnEventoMas ==
    /\ Len(eventos_log) = Len(ultimo.antes.eventos_log) + 1
    /\ SubSeq(eventos_log, 1, Len(eventos_log) - 1)
         = ultimo.antes.eventos_log
    /\ eventos_log[Len(eventos_log)].dia = dia_simulacion

\* C7: a decision whose cost exceeds the balance is dropped: no pending
\* order, no event, the ledger unchanged, and pedidos_generados,
\* costo_total_pedidos and historial_decisiones not incremented
C7_DecisionDescartada ==
    DecisionSinFondos
    => /\ pedidos_pendientes = ultimo.antes.pedidos_pendientes
       /\ eventos_log = ultimo.antes.eventos_log
       /\ finanzas = ultimo.antes.finanzas
       /\ gestor.pedidos_generados = ultimo.antes.gestor.pedidos_generados
       /\ gestor.costo_total_pedidos
            = ultimo.antes.gestor.costo_total_pedidos
       /\ gestor.historial_decisiones
            = ultimo.antes.gestor.historial_decisiones

\* C8: every business-rule failure is absorbed into the event log: each
\* sale without enough stock, each order dropped for lack of funds and each
\* delivery dropped for lack of room appends an event on its day
C8_FallasEnBitacora ==
    /\ DemandaSinExistencias => UnEventoMas
    /\ DecisionSinFondos => UnEventoMas
    /\ (ultimo.op = "procesar_entrega" /\ EntregaSinEspacio) => UnEventoMas

\* the sale of q units of the product at pi to the customer at ci, from
\* the state a
EsVenta(a, ci, pi, q) ==
    /\ productos[pi].nivel_inventario = a.productos[pi].nivel_inventario - q
    /\ finanzas.saldo_actual
         = FAdd(a.finanzas.saldo_actual,
                FMul(FInt(q), a.productos[pi].precio_venta))
    /\ UnEventoMas
    /\ eventos_log[Len(eventos_log)].tipo = "VENTA"
    /\ ventas_totales = a.ventas_totales + 1
    /\ unidades_vendidas = a.unidades_vendidas + q
    /\ desabastecimientos = a.desabastecimientos

\* the stockout of the customer at ci, from the state a
EsDesabastecimiento(a, ci) ==
    /\ productos = a.productos
    /\ desabastecimientos = a.desabastecimientos + 1
    /\ UnEventoMas
    /\ eventos_log[Len(eventos_log)].tipo = "DESABASTECIMIENTO"
    /\ finanzas.saldo_actual
         = FSub(a.finanzas.saldo_actual,
                FMul(costo_desabastecimiento_base,
                     FAdd(FInt(1), FDivInt(FInt(a.clientes[ci].prioridad),
                                           5))))
    /\ ventas_totales = a.ventas_totales
    /\ unidades_vendidas = a.unidades_vendidas

Liquidada(a, ci, pi, q) ==
    IF a.productos[pi].nivel_inventario >= q
    THEN EsVenta(a, ci, pi, q)
    ELSE EsDesabastecimiento(a, ci)

\* C10: a demand of q units settles in exactly one of two ways: with
\* on-hand >= q as a sale (on-hand less q, balance plus q x precio_venta, one
\* VENTA event, ventas_totales plus 1, unidades_vendidas plus q), otherwise
\* as a stockout (lots and on-hand unchanged, desabastecimientos plus 1, one
\* DESABASTECIMIENTO event, balance less 50 x (1 + prioridad / 5)); never
\* as a partial sale
C10_VentaODesabastecimiento ==
    (ultimo.op = "atender_demanda" /\ ultimo.cantidad > 0)
    => Liquidada(ultimo.antes, ultimo.cliente,
                 IndiceProducto(ultimo.antes.productos, ultimo.producto_id),
                 ultimo.cantidad)

\* the run is over: every day asked for is done
Terminada == pc = "listo" /\ corrida.restantes = 0

\* the run stands at a turn the code can take: a day left to start, a
\* demand event, a product or a due delivery under the cursor of its loop
PuedeSeguir ==
    CASE pc = "listo" -> corrida.restantes > 0
      [] pc = "demandas" ->
             cursor \in DOMAIN DemandasDelDia(clientes, 1, productos,
                                              dia_simulacion)
      [] pc = "inventario" -> cursor \in DOMAIN productos
      [] pc = "entregas" -> HayEntregas(pedidos_pendientes, dia_simulacion)
      [] pc = "almacenamiento" -> TRUE
      [] pc = "evaluacion" -> dia_simulacion % 7 = 0

\* the place of a phase in the day, counted from the end
Rango(fase) ==
    CASE fase = "demandas" -> 5
      [] fase = "inventario" -> 4
      [] fase = "entregas" -> 3
      [] fase = "almacenamiento" -> 2
      [] fase = "evaluacion" -> 1
      [] fase = "listo" -> 0

\* the turns the loop of the phase under way has left after this one
EnFase ==
    CASE pc = "demandas" ->
             Len(DemandasDelDia(clientes, 1, productos, dia_simulacion))
             - cursor
      [] pc = "inventario" -> Len(productos) - cursor
      [] pc = "entregas" ->
             Cardinality({k \in DOMAIN pedidos_pendientes :
                 pedidos_pendientes[k].dia_llegada = dia_simulacion})
      [] OTHER -> 0

\* what is left of the run: days, then phases of the day, then turns of
\* the phase
Pendiente == corrida.restantes * 1000 + Rango(pc) * 100 + EnFase

Registrados(tipo) ==
    Cardinality({k \in DOMAIN eventos_log : eventos_log[k].tipo = tipo})

ProductoAntes ==
    ultimo.antes.productos[IndiceProducto(ultimo.antes.productos,
                                          ultimo.producto_id)]

\* the product just evaluated held more than punto_pedido x sensibilidad
SobreElPuntoDePedido ==
    /\ ultimo.op = "evaluar_pedido"
    /\ FLt(FMul(FInt(ProductoAntes.punto_pedido),
                ultimo.antes.gestor.sensibilidad),
           FInt(ProductoAntes.nivel_inventario))

\* C11: evaluar_pedido on a product with nivel_inventario > punto_pedido x
\* sensibilidad returns no decision and changes nothing: the product, the
\* suppliers, pedidos_generados, costo_total_pedidos, historial_decisiones
\* and the rest of the policy state are as before, each time it is called
C11_SinReposicionSinEfectos ==
    SobreElPuntoDePedido
    => /\ ultimo.decision = NoDecision
       /\ productos = ultimo.antes.productos
       /\ proveedores = ProveedoresIniciales
       /\ gestor = ultimo.antes.gestor

\* an evaluation above the reorder point by a policy that has decided orders
\* before, under a sensitivity that the reviews have raised
C11_EvaluacionSinPedido ==
    /\ SobreElPuntoDePedido
    /\ gestor.pedidos_generados > 0
    /\ FLt(FInt(1), gestor.sensibilidad)

(***************************************************************************)
(* Properties of the order of the phases                                   *)
(***************************************************************************)
\* the events of the given kinds dated today
EventosDeHoy(tipos) ==
    {k \in DOMAIN eventos_log :
        /\ eventos_log[k].dia = dia_simulacion
        /\ eventos_log[k].tipo \in tipos}

\* the step under way is the last of its phase: the last demand of the
\* day, the last product, the last delivery due today
FaseAcabada ==
    CASE pc = "demandas" ->
             cursor = Len(DemandasDelDia(clientes, 1, productos,
                                         dia_simulacion))
      [] pc = "inventario" -> cursor = Len(productos)
      [] pc = "entregas" -> ~HayEntregas(pedidos_pendientes', dia_simulacion)
      [] OTHER -> TRUE

\* a step of avanzar_dia: the day moves on by one, and only at the start of
\* avanzar_dia; within the day a phase is left only when its loop is done,
\* and only for a later phase
PasoDelDia ==
    /\ dia_simulacion' = IF pc = "listo" THEN dia_simulacion + 1
                         ELSE dia_simulacion
    /\ pc # "listo" => Rango(pc') <= Rango(pc)
    /\ (pc # "listo" /\ pc' # pc) <=> (pc # "listo" /\ FaseAcabada)

\* a step of the run: one of avanzar_dia, or the panel applied between two
\* calls of avanzar_dia, which leaves the day
PasoEnOrden ==
    IF ultimo'.op = "inicializar_desde_panel"
    THEN pc = "listo" /\ pc' = "listo" /\ dia_simulacion' = dia_simulacion
    ELSE PasoDelDia

\* C12: each avanzar_dia moves the day on by exactly 1 and runs the phases
\* in the order demand, replenishment, delivery, holding cost, review, each
\* to its end: the replenishment of a day sees the stock left by all the
\* demand of that day, the demand of a day is served before any delivery of
\* that day is received, and the holding cost of a day is charged on the
\* stock that holds every delivery due that day
C12_FasesEnOrden ==
    /\ [][PasoEnOrden]_vars
    /\ [](/\ ultimo.op = "atender_demanda"
             => /\ EventosDeHoy({"RECEPCION", "PEDIDO"}) = {}
                /\ pedidos_pendientes = ultimo.antes.pedidos_pendientes
          /\ ultimo.op = "evaluar_inventario"
             => /\ Cardinality(EventosDeHoy({"VENTA", "DESABASTECIMIENTO"}))
                     = Len(DemandasDelDia(clientes, 1, productos,
                                          dia_simulacion))
                /\ EventosDeHoy({"RECEPCION"}) = {}
                /\ productos = ultimo.antes.productos
          /\ ultimo.op = "registrar_costos_almacenamiento"
             => /\ ~HayEntregas(pedidos_pendientes, dia_simulacion)
                /\ productos = ultimo.antes.productos
                /\ finanzas.egresos_almacenamiento
                     = FAdd(ultimo.antes.finanzas.egresos_almacenamiento,
                            CostoAlmacenamientoTotal(productos, FZero)))

\* the holding cost charged on a day that saw a sale, an order and a
\* delivery
C12_DiaCompleto ==
    /\ ultimo.op = "registrar_costos_almacenamiento"
    /\ EventosDeHoy({"VENTA"}) # {}
    /\ EventosDeHoy({"PEDIDO"}) # {}
    /\ EventosDeHoy({"RECEPCION"}) # {}
    /\ finanzas.egresos_almacenamiento
         # ultimo.antes.finanzas.egresos_almacenamiento

(***************************************************************************)
(* Properties of the deliveries                                            *)
(***************************************************************************)
\* the order was placed with a supplier of reliability 1.0
DeProveedorPuntual(pedido) ==
    ProveedorDeId(proveedores, pedido.proveedor).fiabilidad = FInt(1)

\* the day a supplier that is never late delivers the order
LlegadaSinRetraso(pedido) ==
    pedido.dia_pedido
    + ProveedorDeId(proveedores, pedido.proveedor).tiempo_entrega

\* C13: a supplier with fiabilidad 1.0 is never late: every order placed
\* with it on day d is due on day d + tiempo_entrega, and it is processed
\* in the delivery phase of exactly that day: no order is processed on a
\* day other than its dia_llegada, and none is left pending once the
\* delivery phase of its day is over
C13_ProveedorPuntual ==
    /\ \A k \in DOMAIN pedidos_pendientes :
          /\ DeProveedorPuntual(pedidos_pendientes[k])
             => pedidos_pendientes[k].dia_llegada
                  = LlegadaSinRetraso(pedidos_pendientes[k])
          /\ pedidos_pendientes[k].dia_llegada >= dia_simulacion
          /\ pc \in {"almacenamiento", "evaluacion", "listo"}
             => pedidos_pendientes[k].dia_llegada > dia_simulacion
    /\ ultimo.op = "procesar_entrega"
       => /\ ultimo.entrega.dia_llegada = dia_simulacion
          /\ DeProveedorPuntual(ultimo.entrega)
             => dia_simulacion = LlegadaSinRetraso(ultimo.entrega)

\* a delivery of the supplier that is never late, processed on its day
\* after earlier deliveries
C13_EntregaPuntual ==
    /\ ultimo.op = "procesar_entrega"
    /\ DeProveedorPuntual(ultimo.entrega)
    /\ dia_simulacion = LlegadaSinRetraso(ultimo.entrega)
    /\ \E k \in DOMAIN ultimo.antes.eventos_log :
          ultimo.antes.eventos_log[k].tipo = "RECEPCION"

(***************************************************************************)
(* Properties of the reset                                                 *)
(***************************************************************************)
\* an entity without the fields that count what happened to it
SinLotes(p) == [p EXCEPT !.nivel_inventario = 0, !.lotes = <<>>]

\* C14: after reiniciar(), from any state, the day is 0, every product has
\* no lots and nivel_inventario 0, the event log and the pending orders are
\* empty, the stockout, sales and units counters and the counters of every
\* customer are 0, the ledger has its opening balance, zero totals and no
\* transactions, and the products, suppliers and customers registered are
\* those registered before
C14_Reinicio ==
    ultimo.op = "reiniciar"
    => /\ dia_simulacion = 0
       /\ \A i \in DOMAIN productos :
             /\ productos[i].lotes = <<>>
             /\ productos[i].nivel_inventario = 0
       /\ eventos_log = <<>>
       /\ pedidos_pendientes = <<>>
       /\ desabastecimientos = 0
       /\ ventas_totales = 0
       /\ unidades_vendidas = 0
       /\ \A i \in DOMAIN clientes :
             /\ clientes[i].total_compras = 0
             /\ clientes[i].total_gastado = FZero
             /\ clientes[i].pedidos_realizados = 0
             /\ clientes[i].desabastecimientos_sufridos = 0
       /\ finanzas.saldo_inicial = ultimo.antes.finanzas.saldo_inicial
       /\ finanzas.saldo_actual = finanzas.saldo_inicial
       /\ finanzas.ingresos_totales = FZero
       /\ finanzas.egresos_totales = FZero
       /\ finanzas.ingresos_venta = FZero
       /\ finanzas.egresos_compra = FZero
       /\ finanzas.egresos_almacenamiento = FZero
       /\ finanzas.egresos_penalizacion = FZero
       /\ finanzas.transacciones = <<>>
       /\ DOMAIN productos = DOMAIN ultimo.antes.productos
       /\ \A i \in DOMAIN productos :
             SinLotes(productos[i]) = SinLotes(ultimo.antes.productos[i])
       /\ DOMAIN clientes = DOMAIN ultimo.antes.clientes
       /\ \A i \in DOMAIN clientes :
             \A campo \in {"id", "nombre", "tipo", "productos_solicitados",
                           "frecuencia_compra", "cantidad_promedio",
                           "prioridad", "variabilidad", "activo"} :
                clientes[i][campo] = ultimo.antes.clientes[i][campo]
       /\ proveedores = ProveedoresIniciales

\* a reset after days that left stock, pending orders, events, stockouts,
\* sales and a balance other than the opening one
C14_ReinicioTrasVariosDias ==
    /\ ultimo.op = "reiniciar"
    /\ ultimo.antes.dia_simulacion > 3
    /\ ultimo.antes.productos[1].lotes # <<>>
    /\ ultimo.antes.pedidos_pendientes # <<>>
    /\ ultimo.antes.eventos_log # <<>>
    /\ ultimo.antes.desabastecimientos > 0
    /\ ultimo.antes.ventas_totales > 0
    /\ ultimo.antes.clientes[1].desabastecimientos_sufridos > 0
    /\ ultimo.antes.finanzas.saldo_actual
         # ultimo.antes.finanzas.saldo_inicial
    /\ ultimo.antes.finanzas.transacciones # <<>>

\* C15: reiniciar() puts the policy state back to its configured values:
\* the strategy is the one the policy engine was built with, sensibilidad
\* is 1.0, ultimo_cambio_politica is 0, and the order counters and the
\* decision history are empty
C15_PoliticaReiniciada ==
    ultimo.op = "reiniciar" => gestor = GestorPedidos(corrida.politica)

(***************************************************************************)
(* Properties of the registration of products                              *)
(***************************************************************************)
\* the id of the product just handed in was registered already
IdYaRegistrado ==
    \E i \in DOMAIN ultimo.antes.productos :
       ultimo.antes.productos[i].id = ultimo.producto.id

\* C16: agregar_producto with an id already registered returns failure and
\* leaves the product map as it was, the product stored under that id
\* included; with a new id it returns success and adds exactly that
\* product; so no two registered products ever share an id
C16_RegistroDeProductos ==
    /\ \A i, j \in DOMAIN productos :
          productos[i].id = productos[j].id => i = j
    /\ ultimo.op = "agregar_producto"
       => IF IdYaRegistrado
          THEN /\ ~ultimo.exito
               /\ productos = ultimo.antes.productos
          ELSE /\ ultimo.exito
               /\ Len(productos) = Len(ultimo.antes.productos) + 1
               /\ productos[Len(productos)] = ultimo.producto
               /\ SubSeq(productos, 1, Len(productos) - 1)
                    = ultimo.antes.productos

\* a product refused because another product, unlike it, holds its id,
\* with other products registered too
C16_ProductoRepetido ==
    /\ ultimo.op = "agregar_producto"
    /\ ~ultimo.exito
    /\ Len(productos) > 1
    /\ \E i \in DOMAIN productos :
          /\ productos[i].id = ultimo.producto.id
          /\ productos[i] # ultimo.producto

(***************************************************************************)
(* Properties of the queries                                               *)
(***************************************************************************)
\* C17: obtener_eventos_recientes(N), for every N >= 0, returns exactly the
\* last min(N, length of the log) events of eventos_log, in the order of
\* the log, and leaves the log as it was
C17_EventosRecientes ==
    ultimo.op = "obtener_eventos_recientes"
    => /\ Len(ultimo.resultado) = Min2(ultimo.cantidad, Len(eventos_log))
       /\ \A k \in DOMAIN ultimo.resultado :
             /\ ultimo.resultado[k].dia
                  = eventos_log[Len(eventos_log) - Len(ultimo.resultado)
                                + k].dia
             /\ ultimo.resultado[k].tipo
                  = eventos_log[Len(eventos_log) - Len(ultimo.resultado)
                                + k].tipo
             /\ ultimo.resultado[k].datos
                  = eventos_log[Len(eventos_log) - Len(ultimo.resultado)
                                + k].datos
       /\ eventos_log = ultimo.antes.eventos_log


\* the changes of strategy evaluar_desempeno may make
CambiosDeEstrategia == {<<CONSERVADORA, AGRESIVA>>, <<AGRESIVA, CONSERVADORA>>}

\* C18: the strategy changes only in a review, and only from conservative to
\* aggressive or from aggressive to conservative; hence the adaptive strategy
\* is never left and never entered
C18_GrafoDeEstrategias ==
    [][gestor'.politica # gestor.politica
       => /\ ultimo'.op = "evaluar_desempeno"
          /\ <<gestor.politica, gestor'.politica>> \in CambiosDeEstrategia]_vars

\* a review has just changed the strategy back to the aggressive one, after
\* an earlier change to the conservative one
C18_IdaYVuelta ==
    /\ ultimo.op = "evaluar_desempeno"
    /\ Len(ultimo.cambios) = 2
    /\ ultimo.antes.gestor.politica = CONSERVADORA
    /\ gestor.politica = AGRESIVA

\* C19: sensitivity range: in every state reached through reviews and resets,
\* 0.5 <= sensibilidad <= 2.0
C19_RangoDeSensibilidad ==
    /\ FLe(FLit(1, 2), gestor.sensibilidad)
    /\ FLe(gestor.sensibilidad, FInt(2))

\* a review of the adaptive strategy has just held the sensitivity at 2.0,
\* which a further 0.2 would have passed
C19_TopeAlcanzado ==
    /\ ultimo.op = "evaluar_desempeno"
    /\ FLt(FInt(2), FAdd(ultimo.antes.gestor.sensibilidad, FLit(1, 5)))
    /\ gestor.sensibilidad = FInt(2)

\* the product before the last call on the lot ledger
ProductoPrevio == ultimo.antes.productos[1]

\* the last call withdrew all the units on hand under PROMEDIO
RetiroTotalPromedio ==
    /\ ultimo.op = "retirar_unidades"
    /\ ultimo.metodo = PROMEDIO
    /\ ProductoPrevio.nivel_inventario > 0
    /\ ultimo.cantidad = ProductoPrevio.nivel_inventario

\* C20: costing round trip: withdrawing all the units on hand under PROMEDIO
\* succeeds, costs exactly the total value of the lots before the call, and
\* leaves no lots and no units on hand
C20_RetiroTotalExacto ==
    RetiroTotalPromedio
    => /\ ultimo.exito
       /\ ultimo.costo = CostoTotalInventario(ProductoPrevio.lotes, FZero)
       /\ productos[1].lotes = <<>>
       /\ productos[1].nivel_inventario = 0

\* a billionth of an amount y >= 0
Tolerancia(y) == FDivInt(FDivInt(FDivInt(y, 1000), 1000), 1000)

\* |x - y| <= y / 10^9: equal within floating-point tolerance
Cercanos(x, y) ==
    /\ FLe(FSub(x, y), Tolerancia(y))
    /\ FLe(FSub(y, x), Tolerancia(y))

\* C20, amended: withdrawing all the units on hand under PROMEDIO succeeds,
\* costs the total value of the lots before the call within floating-point
\* tolerance, and leaves no lots and no units on hand
C20_RetiroTotal ==
    RetiroTotalPromedio
    => /\ ultimo.exito
       /\ Cercanos(ultimo.costo,
                   CostoTotalInventario(ProductoPrevio.lotes, FZero))
       /\ productos[1].lotes = <<>>
       /\ productos[1].nivel_inventario = 0

\* all the units of two lots were withdrawn, at a cost that is not exactly
\* the value of the lots
C20_CostoRedondeado ==
    /\ RetiroTotalPromedio
    /\ Len(ProductoPrevio.lotes) = 2
    /\ ultimo.costo # CostoTotalInventario(ProductoPrevio.lotes, FZero)
    /\ productos[1].lotes = <<>>

(***************************************************************************)
(* Properties of whole runs                                                *)
(***************************************************************************)
\* C21: reproducibility: a run built from the same entities and fed the same
\* draws goes through the same states of the engine, whatever the reading of
\* the wall clock it was built at; its snapshot is the snapshot taken here
C21_MismaInstantanea ==
    ultimo.op = "obtener_estado"
    => \A reloj \in LecturasDeReloj :
          obtener_estado(ultimo.antes, dia_simulacion, reloj)
            = ultimo.resultado

\* the events of the kind tipo in a log
EventosDeTipo(log, tipo) == {k \in DOMAIN log : log[k].tipo = tipo}

\* the first time the stock is found at or under the reorder point of 50,
\* an order is recorded that day
PrimerPedido ==
    /\ ultimo.op = "evaluar_inventario"
    /\ ultimo.antes.productos[1].nivel_inventario <= 50
    /\ EventosDeTipo(ultimo.antes.eventos_log, "PEDIDO") = {}
    => EventosDeHoy({"PEDIDO"}) # {}

\* a demand for more than the stock, before any delivery has come in, is
\* recorded as a stockout that day
PrimerDesabastecimiento ==
    /\ ultimo.op = "atender_demanda"
    /\ ultimo.cantidad > ultimo.antes.productos[1].nivel_inventario
    /\ EventosDeTipo(ultimo.antes.eventos_log, "RECEPCION") = {}
    => EventosDeHoy({"DESABASTECIMIENTO"}) # {}

\* the 15 days are over
FinDelEscenario ==
    /\ pc = "listo"
    /\ corrida.restantes = 0
    /\ dia_simulacion = DiasDelEscenario

\* C22: the 15-day scenario records an order the first day the stock is at
\* or under 50, records a stockout when a demand comes before the first
\* delivery has restored the stock, and ends with the quantities of the
\* lots adding up to the stock on hand
C22_Escenario ==
    /\ PrimerPedido
    /\ PrimerDesabastecimiento
    /\ FinDelEscenario
       => /\ EventosDeTipo(eventos_log, "PEDIDO") # {}
          /\ EventosDeTipo(eventos_log, "DESABASTECIMIENTO") # {}
          /\ SumaCantidades(productos[1].lotes)
               = productos[1].nivel_inventario

(***************************************************************************)
(* Properties of the order quantity and of the choice of supplier          *)
(***************************************************************************)
\* evaluar_pedido has just been called under the strategy politica on a
\* product that needed replenishment
PedidoEvaluadoBajo(politica) ==
    /\ ultimo.op = "evaluar_pedido"
    /\ ultimo.antes.gestor.politica = politica
    /\ necesita_reposicion(ProductoAntes, ultimo.antes.gestor.sensibilidad)

\* int(demanda_estimada * tiempo_reposicion) of the product evaluated
BaseAntes ==
    FTrunc(FMul(ProductoAntes.demanda_estimada,
                FInt(ProductoAntes.tiempo_reposicion)))

\* punto_pedido - nivel_inventario of the product evaluated
DeficitAntes == ProductoAntes.punto_pedido - ProductoAntes.nivel_inventario

\* C23: conservative order quantity: before the capacity clamp it is
\* min(demand x lead time, (reorder point - on hand) + demand), also when
\* the stock on hand is above the reorder point
C23_CantidadConservadora ==
    PedidoEvaluadoBajo(CONSERVADORA)
    => CantidadSegunPolitica(ultimo.antes.gestor, ProductoAntes, BaseAntes)
         = Min2(BaseAntes,
                DeficitAntes + FTrunc(ProductoAntes.demanda_estimada))

\* C24: adaptive order quantity: with base = demand x lead time and deficit
\* = reorder point - on hand, the quantity before the capacity clamp is
\* max(deficit, base x 1.3), in whole units, when deficit > reorder point
\* x 0.5, and base otherwise
C24_CantidadAdaptativa ==
    PedidoEvaluadoBajo(ADAPTATIVA)
    => CantidadSegunPolitica(ultimo.antes.gestor, ProductoAntes, BaseAntes)
         = IF FLt(FMul(FInt(ProductoAntes.punto_pedido), FLit(1, 2)),
                  FInt(DeficitAntes))
           THEN IF FLt(FInt(DeficitAntes), FMul(FInt(BaseAntes), FLit(13, 10)))
                THEN FTrunc(FMul(FInt(BaseAntes), FLit(13, 10)))
                ELSE DeficitAntes
           ELSE BaseAntes

\* an adaptive order of the whole deficit of 6, which is more than 1.3
\* times the base of 4
C24_PedidoDelDeficit ==
    /\ PedidoEvaluadoBajo(ADAPTATIVA)
    /\ DeficitAntes = 6
    /\ BaseAntes = 4
    /\ ultimo.decision.producto_id = ProductoAntes.id
    /\ ultimo.decision.cantidad = 6

\* capacidad_maxima - nivel_inventario of the product evaluated
EspacioAntes ==
    ProductoAntes.capacidad_maxima - ProductoAntes.nivel_inventario

\* the quantity _calcular_cantidad_pedido gave for the product evaluated
CantidadCalculada == calcular_cantidad_pedido(ultimo.antes.gestor, ProductoAntes)

\* C25: capacity clamp: under every strategy the quantity computed is the
\* quantity of the strategy clamped to [0, capacity - on hand]; a decision
\* is for that quantity, which is then more than 0 and at most the room
\* left; a quantity of 0 gives no decision
C25_TopeDeCapacidad ==
    ultimo.op = "evaluar_pedido"
    => /\ CantidadCalculada \in 0..EspacioAntes
       /\ CantidadCalculada
            = Max2(0, Min2(CantidadSegunPolitica(ultimo.antes.gestor,
                                                 ProductoAntes, BaseAntes),
                           EspacioAntes))
       /\ ultimo.decision # NoDecision
          => /\ ultimo.decision.cantidad = CantidadCalculada
             /\ ultimo.decision.cantidad > 0
             /\ ultimo.decision.cantidad <= EspacioAntes
       /\ CantidadCalculada <= 0 => ultimo.decision = NoDecision

\* an aggressive order cut down to the room for one unit that is left
C25_PedidoRecortado ==
    /\ PedidoEvaluadoBajo(AGRESIVA)
    /\ EspacioAntes = 1
    /\ CantidadSegunPolitica(ultimo.antes.gestor, ProductoAntes, BaseAntes)
         > EspacioAntes
    /\ ultimo.decision.producto_id = ProductoAntes.id
    /\ ultimo.decision.cantidad = 1

\* the suppliers that offer the product evaluated and take an order of
\* cantidad units
Elegibles(cantidad) ==
    {k \in DOMAIN proveedores :
        /\ ProductoAntes.id \in proveedores[k].productos_ofrecidos
        /\ proveedores[k].minimo_pedido <= cantidad}

\* quantity x unit cost, less the volume discount from its threshold on
CostoConDescuento(v, cantidad) ==
    IF /\ ProductoAntes.id \in DOMAIN v.descuento_volumen
       /\ cantidad >= v.descuento_volumen[ProductoAntes.id][1]
    THEN FMul(FMul(ProductoAntes.costo_unitario, FInt(cantidad)),
              FSub(FInt(1), v.descuento_volumen[ProductoAntes.id][2]))
    ELSE FMul(ProductoAntes.costo_unitario, FInt(cantidad))

\* total cost x (2 - reliability)
Puntuacion(v, cantidad) ==
    FMul(CostoConDescuento(v, cantidad), FSub(FInt(2), v.fiabilidad))

\* the decision just emitted went to an eligible supplier of the lowest
\* score
ElegidoElMejor(decision) ==
    \E k \in Elegibles(decision.cantidad) :
       /\ proveedores[k].id = decision.proveedor
       /\ \A j \in Elegibles(decision.cantidad) :
             FLe(Puntuacion(proveedores[k], decision.cantidad),
                 Puntuacion(proveedores[j], decision.cantidad))

\* C26: supplier selection: the supplier of a decision offers the product,
\* takes the quantity decided and has the lowest score = total cost x (2 -
\* reliability) among the suppliers that do; when no supplier does,
\* evaluar_pedido emits no decision and changes no counter
C26_SeleccionDeProveedor ==
    ultimo.op = "evaluar_pedido"
    => /\ ultimo.decision # NoDecision => ElegidoElMejor(ultimo.decision)
       /\ Elegibles(CantidadCalculada) = {}
          => /\ ultimo.decision = NoDecision
             /\ gestor = ultimo.antes.gestor

\* the order went to the second supplier of the list, whose discount gives
\* it the lowest score
C26_ElegidoElSegundo ==
    /\ ultimo.op = "evaluar_pedido"
    /\ ultimo.decision # NoDecision
    /\ Cardinality(Elegibles(ultimo.decision.cantidad)) = 2
    /\ proveedores[2].id = ultimo.decision.proveedor
    /\ ultimo.decision.cantidad >= 5

\* the review just made found the engine under politica
RevisionBajo(politica) ==
    /\ ultimo.op = "evaluar_desempeno"
    /\ ultimo.antes.gestor.politica = politica

\* at least 7 days separate the review just made from the last switch
FueraDeEnfriamiento ==
    ultimo.dia - ultimo.antes.gestor.ultimo_cambio_politica >= 7

\* net profit < -(fraccion of the opening balance)
PerdidaSobre(fraccion) ==
    FLt(ultimo.metricas.utilidad_neta,
        FNeg(FMul(ultimo.metricas.saldo_inicial, fraccion)))

\* the sensitivity before the review, less 0.1 and no lower than 0.5
SensibilidadReducida ==
    FMax(FLit(1, 2), FSub(ultimo.antes.gestor.sensibilidad, FLit(1, 10)))

\* C27: a review outside the cooldown under Conservative: more than 5
\* stockouts make the strategy Aggressive with sensitivity 1.2; otherwise a
\* net profit under -20% of the opening balance keeps the strategy and
\* makes the sensitivity max(0.5, sensitivity - 0.1); otherwise nothing
\* changes
C27_RevisionConservadora ==
    RevisionBajo(CONSERVADORA) /\ FueraDeEnfriamiento
    => IF ultimo.metricas.desabastecimientos > 5
       THEN /\ gestor.politica = AGRESIVA
            /\ gestor.sensibilidad = FLit(6, 5)
       ELSE IF PerdidaSobre(FLit(1, 5))
       THEN /\ gestor.politica = CONSERVADORA
            /\ gestor.sensibilidad = SensibilidadReducida
       ELSE gestor = ultimo.antes.gestor

\* a Conservative engine lowered its sensitivity on a loss between 20% and
\* 30% of the opening balance
C27_SensibilidadBajada ==
    /\ RevisionBajo(CONSERVADORA) /\ FueraDeEnfriamiento
    /\ ultimo.metricas.desabastecimientos <= 5
    /\ PerdidaSobre(FLit(1, 5)) /\ ~PerdidaSobre(FLit(3, 10))
    /\ gestor.politica = CONSERVADORA
    /\ FLt(gestor.sensibilidad, ultimo.antes.gestor.sensibilidad)

\* C28: a review outside the cooldown under Aggressive: a net profit under
\* -30% of the opening balance makes the strategy Conservative with
\* sensitivity 0.8; otherwise fewer than 2 stockouts with a net profit
\* above 0 make it Conservative with sensitivity 1.0; otherwise strategy
\* and sensitivity stay
C28_RevisionAgresiva ==
    RevisionBajo(AGRESIVA) /\ FueraDeEnfriamiento
    => IF PerdidaSobre(FLit(3, 10))
       THEN /\ gestor.politica = CONSERVADORA
            /\ gestor.sensibilidad = FLit(4, 5)
       ELSE IF /\ ultimo.metricas.desabastecimientos < 2
               /\ FLt(FZero, ultimo.metricas.utilidad_neta)
       THEN /\ gestor.politica = CONSERVADORA
            /\ gestor.sensibilidad = FInt(1)
       ELSE /\ gestor.politica = AGRESIVA
            /\ gestor.sensibilidad = ultimo.antes.gestor.sensibilidad

\* an Aggressive engine with a profit and 4 stockouts stayed Aggressive
C28_SigueAgresiva ==
    /\ RevisionBajo(AGRESIVA) /\ FueraDeEnfriamiento
    /\ FLt(FZero, ultimo.metricas.utilidad_neta)
    /\ ultimo.metricas.desabastecimientos >= 2
    /\ gestor.politica = AGRESIVA

\* the metrics _evaluar_sistema gave the review the engine just made
MetricasDelMotor == Metricas(ultimo.antes)

\* the engine just reviewed itself, at the end of a seventh day, under
\* politica
RevisionDelMotorBajo(politica) ==
    /\ ultimo.op = "evaluar_sistema"
    /\ ultimo.antes.gestor.politica = politica

\* what a review makes of the sensitivity of an Adaptive engine
AjusteAdaptativo ==
    /\ gestor.sensibilidad =
          IF MetricasDelMotor.desabastecimientos > 3
          THEN FMin(FInt(2),
                    FAdd(ultimo.antes.gestor.sensibilidad, FLit(1, 5)))
          ELSE IF /\ MetricasDelMotor.desabastecimientos = 0
                  /\ FLt(FZero, MetricasDelMotor.utilidad_neta)
          THEN SensibilidadReducida
          ELSE ultimo.antes.gestor.sensibilidad
    /\ gestor.politica = ADAPTATIVA
    /\ gestor.ultimo_cambio_politica =
          ultimo.antes.gestor.ultimo_cambio_politica

\* C29: a review under Adaptive: more than 3 stockouts make the sensitivity
\* min(2.0, sensitivity + 0.2); no stockout with a net profit above 0 makes
\* it max(0.5, sensitivity - 0.1); otherwise it stays; the strategy and
\* ultimo_cambio_politica stay in every case
C29_RevisionAdaptativa == RevisionDelMotorBajo(ADAPTATIVA) => AjusteAdaptativo

\* an Adaptive engine with more than 3 stockouts raised its sensitivity up
\* to the ceiling of 2.0, which cut the raise short
C29_SensibilidadSubida ==
    /\ RevisionDelMotorBajo(ADAPTATIVA)
    /\ MetricasDelMotor.desabastecimientos > 3
    /\ FLt(ultimo.antes.gestor.sensibilidad, gestor.sensibilidad)
    /\ gestor.sensibilidad = FInt(2)
    /\ FLt(FInt(2), FAdd(ultimo.antes.gestor.sensibilidad, FLit(1, 5)))

\* the events the review just made appended to the log
EventosDeLaRevision ==
    SubSeq(eventos_log, Len(ultimo.antes.eventos_log) + 1, Len(eventos_log))

\* the PolicyChange events of day dia
CambiosDelDia(dia) ==
    {k \in DOMAIN eventos_log :
        /\ eventos_log[k].tipo = "CAMBIO_POLITICA"
        /\ eventos_log[k].dia = dia}

\* C30: a switch of strategy is committed only when the new strategy
\* differs: a review that switches sets ultimo_cambio_politica to its day
\* and appends exactly one CAMBIO_POLITICA event of that day; a review that
\* leaves the strategy appends no event and leaves ultimo_cambio_politica;
\* so every CAMBIO_POLITICA event lies on a day that is a multiple of 7,
\* one at most per day
C30_CambioDePolitica ==
    /\ ultimo.op = "evaluar_sistema"
       => /\ Len(eventos_log) >= Len(ultimo.antes.eventos_log)
          /\ IF gestor.politica # ultimo.antes.gestor.politica
             THEN /\ gestor.ultimo_cambio_politica = dia_simulacion
                  /\ Len(EventosDeLaRevision) = 1
                  /\ EventosDeLaRevision[1].tipo = "CAMBIO_POLITICA"
                  /\ EventosDeLaRevision[1].dia = dia_simulacion
             ELSE /\ gestor.ultimo_cambio_politica
                       = ultimo.antes.gestor.ultimo_cambio_politica
                  /\ eventos_log = ultimo.antes.eventos_log
    /\ \A k \in DOMAIN eventos_log :
          eventos_log[k].tipo = "CAMBIO_POLITICA"
          => /\ eventos_log[k].dia > 0
             /\ eventos_log[k].dia % 7 = 0
             /\ Cardinality(CambiosDelDia(eventos_log[k].dia)) = 1

\* the review of day 14 switched the strategy a second time
C30_SegundoCambio ==
    /\ ultimo.op = "evaluar_sistema"
    /\ gestor.politica # ultimo.antes.gestor.politica
    /\ dia_simulacion = 14
    /\ CambiosDelDia(7) # {}

(***************************************************************************)
(* Properties of the deliveries                                            *)
(***************************************************************************)
\* the product of the delivery just processed, as it stood before
ProductoDeLaEntrega ==
    ultimo.antes.productos[IndiceProducto(ultimo.antes.productos,
                                          ultimo.entrega.producto_id)]

\* the delivery just processed did not fit in the room left
EntregaRechazada == ultimo.op = "procesar_entrega" /\ EntregaSinEspacio

\* how many entries of lista equal x
RECURSIVE VecesEn(_, _)
VecesEn(lista, x) ==
    IF lista = <<>> THEN 0
    ELSE (IF Head(lista) = x THEN 1 ELSE 0) + VecesEn(Tail(lista), x)

\* C31: a due order that would push on-hand above capacity is dropped and
\* not retried: the lots and on-hand stay, the ledger is not debited, no
\* RECEPCION event is recorded, and the order leaves the pending list
C31_EntregaDescartada ==
    EntregaRechazada
    => /\ productos = ultimo.antes.productos
       /\ finanzas = ultimo.antes.finanzas
       /\ eventos_log = ultimo.antes.eventos_log
       /\ Len(pedidos_pendientes) = Len(ultimo.antes.pedidos_pendientes) - 1
       /\ VecesEn(pedidos_pendientes, ultimo.entrega)
            = VecesEn(ultimo.antes.pedidos_pendientes, ultimo.entrega) - 1

\* an order was dropped with stock on hand and a balance to pay it
C31_PedidoPerdido ==
    /\ EntregaRechazada
    /\ ProductoDeLaEntrega.nivel_inventario > 0
    /\ ultimo.entrega \notin {pedidos_pendientes[k] :
                                  k \in DOMAIN pedidos_pendientes}

\* a is the beginning of b
EsPrefijo(a, b) == Len(a) <= Len(b) /\ SubSeq(b, 1, Len(a)) = a

\* the engine steps that take no order off the pending list
PasoSinEntrega ==
    ultimo.op \in {"avanzar_dia", "atender_demanda", "evaluar_inventario",
                   "registrar_costos_almacenamiento", "evaluar_sistema"}

\* the delivery just processed was stored: one more lot, of the quantity of
\* the order at total cost / quantity, and the total cost debited
EntregaAlmacenada ==
    /\ productos[IndiceProducto(productos, ultimo.entrega.producto_id)].lotes
         = Append(ProductoDeLaEntrega.lotes,
                  [cantidad |-> ultimo.entrega.cantidad,
                   costo |-> FDivInt(ultimo.entrega.costo,
                                     ultimo.entrega.cantidad),
                   fecha_ingreso |-> dia_simulacion])
    /\ productos[IndiceProducto(productos,
                                ultimo.entrega.producto_id)].nivel_inventario
         = ProductoDeLaEntrega.nivel_inventario + ultimo.entrega.cantidad
    /\ finanzas.saldo_actual
         = FSub(ultimo.antes.finanzas.saldo_actual, ultimo.entrega.costo)
    /\ finanzas.egresos_totales
         = FAdd(ultimo.antes.finanzas.egresos_totales, ultimo.entrega.costo)
    /\ Len(finanzas.transacciones)
         = Len(ultimo.antes.finanzas.transacciones) + 1

\* C32: every pending order is due on a day after the day it was placed,
\* stays pending until the delivery phase of its due day and is consumed
\* once on that day; stored, it adds one lot of its quantity at total cost /
\* quantity and debits its total cost; between two days no pending order is
\* due on the current day or earlier
C32_CicloDelPedido ==
    /\ \A k \in DOMAIN pedidos_pendientes :
          /\ pedidos_pendientes[k].dia_llegada
               > pedidos_pendientes[k].dia_pedido
          /\ pedidos_pendientes[k].dia_llegada >= dia_simulacion
          /\ pc \in {"listo", "almacenamiento", "evaluacion"}
             => pedidos_pendientes[k].dia_llegada > dia_simulacion
    /\ PasoSinEntrega
       => EsPrefijo(ultimo.antes.pedidos_pendientes, pedidos_pendientes)
    /\ ultimo.op = "procesar_entrega"
       => /\ ultimo.entrega.dia_llegada = dia_simulacion
          /\ Len(pedidos_pendientes)
               = Len(ultimo.antes.pedidos_pendientes) - 1
          /\ VecesEn(pedidos_pendientes, ultimo.entrega)
               = VecesEn(ultimo.antes.pedidos_pendientes, ultimo.entrega) - 1
          /\ ~EntregaSinEspacio => EntregaAlmacenada

\* a late order was stored on its due day while a later order waits
C32_EntregaTardia ==
    /\ ultimo.op = "procesar_entrega"
    /\ ~EntregaSinEspacio
    /\ ultimo.entrega.dia_llegada - ultimo.entrega.dia_pedido
         > ProveedorDeId(proveedores, ultimo.entrega.proveedor).tiempo_entrega
    /\ pedidos_pendientes # <<>>

\* the sum, in the order of the products, of on-hand x holding cost per
\* unit per day, from the int 0
RECURSIVE SumaDeAlmacenamiento(_, _)
SumaDeAlmacenamiento(prods, n) ==
    IF n = 0 THEN FZero
    ELSE FAdd(SumaDeAlmacenamiento(prods, n - 1),
              FMul(FInt(prods[n].nivel_inventario), FLit(1, 10)))

\* the holding transactions dated dia
CobrosDeAlmacenamiento(dia) ==
    {k \in DOMAIN finanzas.transacciones :
        /\ finanzas.transacciones[k].categoria = "ALMACENAMIENTO"
        /\ finanzas.transacciones[k].fecha = dia}

\* the ledger after one debit of monto in category ALMACENAMIENTO on top of
\* the ledger f
UnCobroMas(f, monto) ==
    /\ finanzas.saldo_actual = FSub(f.saldo_actual, monto)
    /\ finanzas.egresos_totales = FAdd(f.egresos_totales, monto)
    /\ finanzas.egresos_almacenamiento = FAdd(f.egresos_almacenamiento, monto)
    /\ Len(finanzas.transacciones) = Len(f.transacciones) + 1
    /\ finanzas.transacciones[Len(finanzas.transacciones)].categoria
         = "ALMACENAMIENTO"
    /\ finanzas.transacciones[Len(finanzas.transacciones)].monto = monto
    /\ SubSeq(finanzas.transacciones, 1, Len(f.transacciones))
         = f.transacciones

\* C33: each day the ledger is debited at most once in category
\* ALMACENAMIENTO, by the sum over the products of on-hand x holding cost
\* per unit per day, taken after the deliveries of the day; when the sum is
\* 0 the phase records no transaction and leaves the ledger
C33_CostoDeAlmacenamiento ==
    /\ \A dia \in 0..dia_simulacion :
          Cardinality(CobrosDeAlmacenamiento(dia)) <= 1
    /\ ultimo.op = "registrar_costos_almacenamiento"
       => /\ ~HayEntregas(pedidos_pendientes, dia_simulacion)
          /\ productos = ultimo.antes.productos
          /\ IF FLt(FZero, SumaDeAlmacenamiento(productos, Len(productos)))
             THEN UnCobroMas(ultimo.antes.finanzas,
                      SumaDeAlmacenamiento(productos, Len(productos)))
             ELSE finanzas = ultimo.antes.finanzas

\* the stock of three products was charged on a day with a delivery
C33_CobroTrasEntrega ==
    /\ ultimo.op = "registrar_costos_almacenamiento"
    /\ EventosDeHoy({"RECEPCION"}) # {}
    /\ \A i \in DOMAIN productos : productos[i].nivel_inventario > 0
    /\ CobrosDeAlmacenamiento(dia_simulacion) # {}

\* a day with nothing on hand was not charged
C33_DiaSinCobro ==
    /\ ultimo.op = "registrar_costos_almacenamiento"
    /\ finanzas = ultimo.antes.finanzas

(***************************************************************************)
(* Properties of the realized cost                                         *)
(***************************************************************************)
\* the units a withdrawal of q takes from lot n of lotes, the lots before it
\* being taken first
Tomadas(lotes, n, q) ==
    Min2(lotes[n].cantidad,
         Max2(0, q - SumaCantidades(SubSeq(lotes, 1, n - 1))))

\* the units a withdrawal of q takes from the first n lots
RECURSIVE TotalTomadas(_, _, _)
TotalTomadas(lotes, n, q) ==
    IF n = 0 THEN 0
    ELSE TotalTomadas(lotes, n - 1, q) + Tomadas(lotes, n, q)

\* the sum over the first n lots of units taken x unit cost, from 0.0
RECURSIVE CostoRealizado(_, _, _)
CostoRealizado(lotes, n, q) ==
    IF n = 0 THEN FZero
    ELSE FAdd(CostoRealizado(lotes, n - 1, q),
              FMul(FInt(Tomadas(lotes, n, q)), lotes[n].costo))

\* the withdrawal just made was a successful one under PEPS or UEPS
RetiroPorOrden ==
    /\ ultimo.op = "retirar_unidades"
    /\ ultimo.exito
    /\ ultimo.metodo \in {PEPS, UEPS}

\* the lots before the withdrawal just made, in the order it takes them
LotesEnOrden == OrdenarLotes(ultimo.antes.productos[1].lotes, ultimo.metodo)

\* the cost, the units taken and on-hand of the withdrawal just made are
\* those of a withdrawal of its whole quantity
RetiroCompleto ==
    /\ ultimo.costo
         = CostoRealizado(LotesEnOrden, Len(LotesEnOrden), ultimo.cantidad)
    /\ TotalTomadas(LotesEnOrden, Len(LotesEnOrden), ultimo.cantidad)
         = ultimo.cantidad
    /\ SumaCantidades(ultimo.antes.productos[1].lotes)
         - SumaCantidades(productos[1].lotes) = ultimo.cantidad
    /\ productos[1].nivel_inventario
         = ultimo.antes.productos[1].nivel_inventario - ultimo.cantidad

\* C34: the cost a successful PEPS or UEPS withdrawal of q units returns is
\* the sum over the lots of units taken x unit cost, the units taken add up
\* to q, and on-hand goes down by q
C34_CostoRealizado == RetiroPorOrden => RetiroCompleto

\* the same of the withdrawals made while the lots add up to on-hand
C34_CostoConLotesCompletos ==
    /\ RetiroPorOrden
    /\ SumaCantidades(ultimo.antes.productos[1].lotes)
         = ultimo.antes.productos[1].nivel_inventario
    => RetiroCompleto

(***************************************************************************)
(* Properties of the event log                                             *)
(***************************************************************************)
\* the export just made lists the events of the log, one entry each, in the
\* order of the log
ExporteFiel ==
    /\ Len(ultimo.resultado) = Len(eventos_log)
    /\ \A k \in DOMAIN eventos_log :
          /\ ultimo.resultado[k].dia = eventos_log[k].dia
          /\ ultimo.resultado[k].tipo = eventos_log[k].tipo
          /\ \A clave \in DOMAIN eventos_log[k].datos :
                ultimo.resultado[k][clave] = eventos_log[k].datos[clave]
    /\ eventos_log = ultimo.antes.eventos_log

\* the days of the log never go down
LogCronologico ==
    \A k \in 1..(Len(eventos_log) - 1) :
       eventos_log[k].dia <= eventos_log[k + 1].dia

\* one step of a run keeps the log written so far, unless it is a reset,
\* and leaves a chronological log that an export lists faithfully
PasoDelLog ==
    /\ ultimo'.op # "reiniciar" => EsPrefijo(eventos_log, eventos_log')
    /\ LogCronologico'
    /\ ultimo'.op = "exportar_eventos" => ExporteFiel'

\* C35: the event log is append-only and chronological: with no reset in
\* between, the log of an earlier state is a prefix of the log of a later
\* one; the days of the log never go down; exportar_eventos returns one
\* entry per logged event in the order of the log
C35_LogSoloCrece == [][PasoDelLog]_vars

\* an export of the events of several days, logged after a reset
C35_ExporteTrasReinicio ==
    /\ ultimo.op = "exportar_eventos"
    /\ Len(ultimo.resultado) > 1
    /\ ultimo.resultado[1].dia < ultimo.resultado[Len(ultimo.resultado)].dia
    /\ dia_simulacion < MaxDiaReinicio - corrida.restantes

\* C36: after any sequence of agregar_lote and successful or failed
\* retirar_unidades calls under any costing method, every lot of the lot
\* list of a product holds more than 0 units, and on-hand is never negative
C36_SinLotesVacios ==
    \A i \in DOMAIN productos :
       /\ productos[i].nivel_inventario >= 0
       /\ \A k \in DOMAIN productos[i].lotes :
             productos[i].lotes[k].cantidad > 0

\* a PROMEDIO withdrawal emptied a lot and kept another
C36_LoteVaciado ==
    /\ ultimo.op = "retirar_unidades"
    /\ ultimo.exito
    /\ ultimo.metodo = PROMEDIO
    /\ Len(productos[1].lotes) < Len(ultimo.antes.productos[1].lotes)
    /\ productos[1].lotes # <<>>

\* the units of the VENTA events among the first n events of log
RECURSIVE UnidadesDeVentas(_, _)
UnidadesDeVentas(log, n) ==
    IF n = 0 THEN 0
    ELSE UnidadesDeVentas(log, n - 1)
         + (IF log[n].tipo = "VENTA" THEN log[n].datos.cantidad ELSE 0)

\* the counters of the engine are those of its log
ContadoresDelLog ==
    /\ desabastecimientos
         = Cardinality(EventosDeTipo(eventos_log, "DESABASTECIMIENTO"))
    /\ ventas_totales = Cardinality(EventosDeTipo(eventos_log, "VENTA"))
    /\ unidades_vendidas = UnidadesDeVentas(eventos_log, Len(eventos_log))

\* the orders logged that were neither received nor are pending
PedidosSinDestino ==
    Cardinality(EventosDeTipo(eventos_log, "PEDIDO"))
    - Cardinality(EventosDeTipo(eventos_log, "RECEPCION"))
    - Len(pedidos_pendientes)

\* one step of a run: the counters follow the log, and the orders without
\* destination are one more when the step drops a delivery for capacity,
\* and as many as before otherwise
PasoContado ==
    /\ ContadoresDelLog'
    /\ PedidosSinDestino'
         = PedidosSinDestino
           + (IF ultimo'.op = "procesar_entrega" /\ EntregaSinEspacio'
              THEN 1 ELSE 0)

\* C37: in every state of a run desabastecimientos is the number of
\* DESABASTECIMIENTO events, ventas_totales the number of VENTA events,
\* unidades_vendidas the sum of the quantities of the VENTA events, and the
\* number of PEDIDO events the number of RECEPCION events plus the pending
\* orders plus the deliveries dropped for capacity
C37_ContadoresYLog == [][PasoContado]_vars

\* a run with a delivery dropped, another received, sales and stockouts
C37_RecuentoConDescartes ==
    /\ PedidosSinDestino > 0
    /\ EventosDeTipo(eventos_log, "RECEPCION") # {}
    /\ ventas_totales > 1
    /\ unidades_vendidas > ventas_totales
    /\ desabastecimientos > 0

(***************************************************************************)
(* Properties of the orders in transit                                     *)
(***************************************************************************)
\* the product just evaluated stood at or under punto_pedido x sensibilidad
BajoElUmbral ==
    necesita_reposicion(ProductoAntes, ultimo.antes.gestor.sensibilidad)

\* what the decision is made of: the stock of the product against its
\* threshold, the quantity of the strategy and the suppliers that take it
HayQuePedir ==
    /\ BajoElUmbral
    /\ CantidadCalculada > 0
    /\ Elegibles(CantidadCalculada) # {}

\* the pending orders of the product just evaluated, before its evaluation
PedidosEnCamino ==
    {k \in DOMAIN ultimo.antes.pedidos_pendientes :
        ultimo.antes.pedidos_pendientes[k].producto_id = ultimo.producto_id}

\* the evaluation just made put one order more on the pending list, for
\* the product evaluated, placed today
PedidoNuevo ==
    /\ Len(pedidos_pendientes) = Len(ultimo.antes.pedidos_pendientes) + 1
    /\ EsPrefijo(ultimo.antes.pedidos_pendientes, pedidos_pendientes)
    /\ pedidos_pendientes[Len(pedidos_pendientes)].producto_id
         = ultimo.producto_id
    /\ pedidos_pendientes[Len(pedidos_pendientes)].dia_pedido = dia_simulacion
    /\ pedidos_pendientes[Len(pedidos_pendientes)].cantidad
         = CantidadCalculada

\* the decision just made is that of the product, the policy state and the
\* suppliers, whatever the orders in transit
DecisionPropia ==
    /\ ultimo.decision # NoDecision <=> HayQuePedir
    /\ ultimo.decision # NoDecision
       => /\ ultimo.decision.producto_id = ultimo.producto_id
          /\ ultimo.decision.cantidad = CantidadCalculada
          /\ ElegidoElMejor(ultimo.decision)

\* C38: the decision evaluar_pedido emits for a product depends only on the
\* product, the policy state and the suppliers, not on the orders in
\* transit, and a product that stands at or under its threshold gets a new
\* pending order each day, also while earlier orders for it are pending
C38_PedidoCadaDia ==
    ultimo.op = "evaluar_inventario"
    => /\ DecisionPropia
       /\ BajoElUmbral => PedidoNuevo

\* C38 as amended: the product gets the new pending order each day on which
\* a decision is emitted and the balance covers its cost, and none
\* otherwise
C38_PedidoSiHayDecisionYSaldo ==
    ultimo.op = "evaluar_inventario"
    => /\ DecisionPropia
       /\ IF /\ ultimo.decision # NoDecision
             /\ tiene_saldo_suficiente(ultimo.antes.finanzas,
                                       ultimo.decision.costo_total)
          THEN PedidoNuevo
          ELSE pedidos_pendientes = ultimo.antes.pedidos_pendientes

\* an order was placed for a product with an order of the day before still
\* pending, under the aggressive strategy
C38_PedidoSobrePedido ==
    /\ ultimo.op = "evaluar_inventario"
    /\ ultimo.antes.gestor.politica = AGRESIVA
    /\ PedidoNuevo
    /\ \E k \in PedidosEnCamino :
          ultimo.antes.pedidos_pendientes[k].dia_pedido = dia_simulacion - 1

(***************************************************************************)
(* Properties of the calendar of reviews                                   *)
(***************************************************************************)
\* C39: in a run of the engine the cooldown never holds a review back:
\* reviews fall on the days that are multiples of 7 and
\* ultimo_cambio_politica is 0 or an earlier multiple of 7, so at every
\* review day - ultimo_cambio_politica >= 7, and the strategy can switch at
\* each of two consecutive reviews
C39_RevisionSinEnfriamiento ==
    /\ gestor.ultimo_cambio_politica % 7 = 0
    /\ gestor.ultimo_cambio_politica \in 0..dia_simulacion
    /\ pc = "evaluacion"
       => /\ dia_simulacion % 7 = 0
          /\ dia_simulacion - gestor.ultimo_cambio_politica >= 7
          /\ ~EnEnfriamiento(gestor, dia_simulacion)
    /\ ultimo.op = "evaluar_sistema"
       => /\ dia_simulacion % 7 = 0
          /\ dia_simulacion - ultimo.antes.gestor.ultimo_cambio_politica >= 7
          /\ gestor.ultimo_cambio_politica
               \in {ultimo.antes.gestor.ultimo_cambio_politica,
                    dia_simulacion}

\* the strategy switched at the reviews of day 7 and of day 14
C39_CambiosSeguidos ==
    /\ ultimo.op = "evaluar_sistema"
    /\ ultimo.antes.gestor.ultimo_cambio_politica = 7
    /\ gestor.ultimo_cambio_politica = 14

\* the stockouts logged up to day dia
DesabastecimientosHasta(dia) ==
    Cardinality({k \in DOMAIN eventos_log :
                    /\ eventos_log[k].tipo = "DESABASTECIMIENTO"
                    /\ eventos_log[k].dia <= dia})

\* the strategy at the start of the review of day dia, read at the start
\* of the next review: the strategy left by that review, or the one it
\* switched from
PoliticaAlRevisar(dia) ==
    IF CambiosDelDia(dia) = {} THEN gestor.politica
    ELSE eventos_log[CHOOSE k \in CambiosDelDia(dia) : TRUE]
             .datos.politica_anterior

\* the next review is about to start Conservative as the last one did,
\* with more than 5 stockouts counted at the last one
DosRevisionesConservadoras ==
    /\ pc = "evaluacion"
    /\ dia_simulacion >= 14
    /\ DesabastecimientosHasta(dia_simulacion - 7) > 5
    /\ gestor.politica = CONSERVADORA
    /\ PoliticaAlRevisar(dia_simulacion - 7) = CONSERVADORA

\* one step of a run: the stockout count does not go down; a review is
\* given the count so far and, starting Conservative with a count above 5,
\* ends Aggressive; no two consecutive reviews start Conservative once the
\* count is above 5
PasoDeDesabastecimientos ==
    /\ desabastecimientos' >= desabastecimientos
    /\ ultimo'.op = "evaluar_sistema"
       => /\ Metricas(EstadoActual).desabastecimientos = desabastecimientos
          /\ desabastecimientos
               = DesabastecimientosHasta(dia_simulacion)
          /\ gestor.politica = CONSERVADORA /\ desabastecimientos > 5
             => gestor'.politica = AGRESIVA
    /\ ~DosRevisionesConservadoras'

\* C40: the stockout count given to the reviews is cumulative and never
\* goes down during a run; so once it is above 5 every review that starts
\* Conservative ends Aggressive, and the strategy is never Conservative at
\* the start of two consecutive reviews
C40_DesabastecimientosAcumulados == [][PasoDeDesabastecimientos]_vars

\* the review of day 7 started Conservative with more than 5 stockouts
\* and ended Aggressive, and the review of day 14 is about to start with
\* more stockouts and another strategy
C40_ConservadoraAbandonada ==
    /\ pc = "evaluacion"
    /\ dia_simulacion = 14
    /\ DesabastecimientosHasta(7) > 5
    /\ PoliticaAlRevisar(7) = CONSERVADORA
    /\ desabastecimientos > DesabastecimientosHasta(7)
    /\ gestor.politica = AGRESIVA
====
